---- MODULE Spec2Model ----
(***************************************************************************)
(* Model of the lecture_assistant web backend (src/backend/main.py) and of *)
(* the graph it drives (src/backend/graph_async.py).                       *)
(*                                                                         *)
(* Python dictionaries are functions from string keys to values.  Every    *)
(* coroutine of main.py is cut at its await points: one action runs the    *)
(* code between two awaits atomically, as the asyncio event loop does.     *)
(***************************************************************************)
EXTENDS Integers, Sequences, FiniteSets, TLC

\* ------------------------------------------------------------------ bounds

\* Session ids the model hands out (uuid4 values in the code).
Sessions == {"s1", "s2"}

\* The session of the specifications that follow a single session.
FirstSession == {"s1"}

\* submit_feedback calls accepted per session.
MaxFeedback == 2

\* submit_feedback calls accepted per session while a task of the session is
\* still alive (scheduled or running).
MaxOverlap == 1

\* Node executions of one task under Spec, where tasks of a session overlap.
MaxRunSteps == 12

\* Node executions of the first run under SpecWs.
MaxWsSteps == 2

\* Node executions of one task under SpecMulti.
MaxMultiSteps == 1

\* Node executions of one task under SpecDel.
MaxDelSteps == 2

\* submit_feedback calls accepted per session under SpecMulti.
MaxMultiFeedback == 1

\* submit_feedback calls accepted per session under SpecSeq.
MaxSeqFeedback == 4

\* Nodes a run may complete while status queries are observed.
MaxQuerySteps == 4

\* recursion_limit of the graph run configuration.
RecursionLimit == 50

\* The longest generated text, in lines, and the longest claim list.
MaxLines == 6
MaxClaims == 8

\* submit_feedback calls accepted per session under SpecTone.
MaxToneFeedback == 5

\* Slots for the asyncio tasks of one session alive at the same time.
TaskIds == 1..(MaxOverlap + 1)

\* ------------------------------------------------------------ dictionaries

EmptyDict == [k \in {} |-> ""]

\* dict.get(k, default)
Get(d, k, default) == IF k \in DOMAIN d THEN d[k] ELSE default

\* dict.update(u): the keys of u are overwritten or added, the others kept.
Update(d, u) == [k \in DOMAIN d \cup DOMAIN u |-> IF k \in DOMAIN u THEN u[k] ELSE d[k]]

\* ------------------------------------------------------------------ strings

\* The decisions a human may post: the sentinel of approval and a free text.
Decisions == {"approve", "revise"}

\* str.strip on the strings of the model ("Approve " stands for a text that
\* str.strip and str.lower both change, "skip " for one that str.strip
\* changes).
Strip(x) ==
    CASE x = "Approve " -> "Approve"
      [] x = "skip " -> "skip"
      [] OTHER -> x

\* str.lower on the strings of the model.
Lower(x) ==
    CASE x = "Approve " -> "approve "
      [] x = "Approve" -> "approve"
      [] OTHER -> x

\* ------------------------------------------------------------ graph_async.py

END == "__end__"

Nodes ==
    {"input", "search_plan", "plan_draft", "plan_review", "web_search", "extract",
     "prioritize", "claims_extract", "claims_review", "synthesize", "review",
     "refine", "tone_review", "tone_apply", "generate_brief", "format"}

ReviewNodes == {"plan_review", "claims_review", "review", "tone_review"}

W == "_waiting_for_human"
CT == "_checkpoint_type"
None == "None"

input_node(st) ==
    ("topic" :> Strip(st["topic"])) @@ ("seed" :> Get(st, "seed", 42))
        @@ ("status" :> "input") @@ (W :> FALSE)

search_plan_node(st) ==
    LET pf == Strip(Get(st, "plan_feedback", ""))
    IN  ("search_queries" :> IF pf # "" /\ pf # "approve" THEN "guided" ELSE "plain")
            @@ ("status" :> "search_planning") @@ (W :> FALSE)

web_search_node(st) ==
    ("search_results" :> "results") @@ ("status" :> "searching") @@ (W :> FALSE)

plan_draft_node(st) ==
    ("plan_summary" :> "plan") @@ ("status" :> "plan_drafting") @@ (W :> FALSE)

plan_review_node(st) ==
    LET existing == Strip(Get(st, "plan_feedback", ""))
    IN  IF existing = "" \/ existing = "pending"
        THEN ("plan_feedback" :> "pending") @@ ("status" :> "plan_review")
                 @@ (W :> TRUE) @@ (CT :> "plan_review")
        ELSE ("plan_feedback" :> existing) @@ ("status" :> "plan_review")
                 @@ (W :> FALSE) @@ (CT :> None)

\* A replan gate that does not know the approval sentinel.
needs_replan_on_any(st) ==
    LET fb == Lower(Strip(Get(st, "plan_feedback", "")))
    IN  IF fb # "" /\ fb # "pending" THEN "replan" ELSE "continue"

\* A revision gate that does not know the approval sentinel.
needs_revision_on_any(st) ==
    LET feedback == Lower(Strip(Get(st, "human_feedback", "")))
    IN  IF feedback # "" /\ feedback # "pending" THEN "refine" ELSE "generate_brief"

\* Gates that compare the feedback as it was typed.
needs_replan_as_typed(st) ==
    LET fb == Get(st, "plan_feedback", "")
    IN  IF fb # "" /\ fb \notin {"approve", "pending"} THEN "replan" ELSE "continue"

needs_revision_as_typed(st) ==
    LET feedback == Get(st, "human_feedback", "")
    IN  IF feedback # "" /\ feedback \notin {"approve", "pending"}
        THEN "refine" ELSE "generate_brief"

needs_replan(st) ==
    LET fb == Lower(Strip(Get(st, "plan_feedback", "")))
    IN  IF fb # "" /\ fb \notin {"approve", "pending"} THEN "replan" ELSE "continue"

synthesize_node(st) ==
    ("outline" :> "outline") @@ ("status" :> "synthesizing") @@ (W :> FALSE)

extract_node(st) ==
    ("extracted_sources" :> "enriched") @@ ("status" :> "extracting") @@ (W :> FALSE)

prioritize_node(st) ==
    ("prioritized_sources" :> "prioritized") @@ ("status" :> "prioritizing")
        @@ (W :> FALSE)

claims_extract_node(st) ==
    ("claims" :> "claims") @@ ("citation_map" :> "citations")
        @@ ("status" :> "claims_extracting") @@ (W :> FALSE)

\* The texts the model may answer claims_extract with, by their shape: no
\* JSON, JSON that is no object, and objects with and without well-shaped
\* "claims" and "citation_map".
RawTexts ==
    {"no json", "[1, 2]", "7", "null", "{}",
     "{claims: [c1], citation_map: {1: u}}",
     "{claims: [c1]}",
     "{claims: [], citation_map: {}}",
     "{claims: null, citation_map: null}",
     "{claims: 'c1'}",
     "{claims: [1, 2]}",
     "{claims: 5}"}

\* json.loads(raw): whether it returns, the type of the value, and for an
\* object the kind of value under "claims" and "citation_map".
json_loads(raw) ==
    LET obj(claims, citation_map) ==
            [ok |-> TRUE, top |-> "dict", claims |-> claims, citation_map |-> citation_map]
        other(top) == [ok |-> TRUE, top |-> top, claims |-> "", citation_map |-> ""]
    IN  CASE raw = "no json" -> [ok |-> FALSE, top |-> "", claims |-> "", citation_map |-> ""]
          [] raw = "[1, 2]" -> other("list")
          [] raw = "7" -> other("int")
          [] raw = "null" -> other("None")
          [] raw = "{}" -> obj("absent", "absent")
          [] raw = "{claims: [c1], citation_map: {1: u}}" -> obj("records", "map")
          [] raw = "{claims: [c1]}" -> obj("records", "absent")
          [] raw = "{claims: [], citation_map: {}}" -> obj("empty", "empty")
          [] raw = "{claims: null, citation_map: null}" -> obj("None", "None")
          [] raw = "{claims: 'c1'}" -> obj("str", "absent")
          [] raw = "{claims: [1, 2]}" -> obj("ints", "absent")
          [] raw = "{claims: 5}" -> obj("int", "absent")

\* The single claim that wraps the raw text.
FallbackClaims(raw) == <<[id |-> 1, text |-> raw, citations |-> <<>>]>>

\* claims_extract_node on the text raw the model answered: the update it
\* returns, or the exception it raises.  A value that is no list of records
\* gets past the try block and fails in the log_event arguments
\* (len(claims), c.get("text") for c in claims[:3]).
claims_extract_text(raw) ==
    LET j == json_loads(raw)
        Falsy(kind) == kind \in {"absent", "None", "empty"}
        returned(claims, citation_map) ==
            [raised |-> FALSE, err |-> "",
             out |-> ("claims" :> claims) @@ ("citation_map" :> citation_map)
                         @@ ("status" :> "claims_extracting") @@ (W :> FALSE)]
        raises(err) == [raised |-> TRUE, err |-> err, out |-> EmptyDict]
        citation_map == IF j.citation_map = "map" THEN ("1" :> "u") ELSE EmptyDict
    IN  IF ~j.ok \/ j.top # "dict"
        THEN returned(FallbackClaims(raw), EmptyDict)
        ELSE CASE Falsy(j.claims) -> returned(<<>>, citation_map)
               [] j.claims = "records" ->
                      returned(<<[id |-> 1, text |-> "c1", citations |-> <<"1">>]>>,
                               citation_map)
               [] j.claims \in {"str", "ints"} -> raises("AttributeError")
               [] j.claims = "int" -> raises("TypeError")

claims_review_node(st) ==
    LET existing == Strip(Get(st, "claims_feedback", ""))
    IN  IF existing = "" \/ existing = "pending"
        THEN ("claims_feedback" :> "pending") @@ ("status" :> "claims_review")
                 @@ (W :> TRUE) @@ (CT :> "claims_review")
        ELSE ("claims_feedback" :> existing) @@ ("status" :> "claims_review")
                 @@ (W :> FALSE) @@ (CT :> None)

review_node(st) ==
    LET existing_feedback == Get(st, "human_feedback", "")
    IN  IF existing_feedback = "" \/ existing_feedback = "pending"
        THEN ("human_feedback" :> "pending") @@ ("status" :> "review")
                 @@ (W :> TRUE) @@ (CT :> "review")
        ELSE ("human_feedback" :> existing_feedback) @@ ("status" :> "review")
                 @@ (W :> FALSE) @@ (CT :> None)

refinement_node(st) ==
    LET feedback == Get(st, "human_feedback", "")
        outline == Get(st, "outline", "")
    IN  ("outline" :> IF feedback = "" \/ Lower(feedback) \in {"approve", "pending"}
                      THEN outline ELSE "revised")
            @@ ("status" :> "refining") @@ (W :> FALSE)

tone_review_node(st) ==
    LET existing == Strip(Get(st, "tone_prefs", ""))
    IN  IF existing = "pending"
        THEN ("tone_prefs" :> "pending") @@ ("status" :> "tone_review")
                 @@ (W :> TRUE) @@ (CT :> "tone_review")
        ELSE ("tone_prefs" :> existing) @@ ("status" :> "tone_review")
                 @@ (W :> FALSE) @@ (CT :> None)

tone_apply_node(st) ==
    LET prefs == Strip(Get(st, "tone_prefs", ""))
    IN  ("outline" :> IF prefs = "" \/ prefs \in {"skip", "pending"}
                      THEN Get(st, "outline", "") ELSE "toned")
            @@ ("status" :> "tone_applying") @@ (W :> FALSE)

final_brief_node(st) ==
    ("brief" :> "brief") @@ ("status" :> "final") @@ (W :> FALSE)

formatting_node(st) ==
    ("formatted_brief" :> "formatted") @@ ("status" :> "completed") @@ (W :> FALSE)

needs_revision(st) ==
    LET feedback == Lower(Strip(Get(st, "human_feedback", "")))
    IN  IF feedback # "" /\ feedback \notin {"approve", "pending"}
        THEN "refine" ELSE "generate_brief"

tone_next(st) ==
    LET prefs == Strip(Get(st, "tone_prefs", ""))
    IN  IF prefs # "" /\ prefs \notin {"skip", "pending"} THEN "apply" ELSE "skip"

\* graph.add_node: the function each node name runs.
NodeOutput(n, st) ==
    CASE n = "input" -> input_node(st)
      [] n = "search_plan" -> search_plan_node(st)
      [] n = "plan_draft" -> plan_draft_node(st)
      [] n = "plan_review" -> plan_review_node(st)
      [] n = "web_search" -> web_search_node(st)
      [] n = "extract" -> extract_node(st)
      [] n = "prioritize" -> prioritize_node(st)
      [] n = "claims_extract" -> claims_extract_node(st)
      [] n = "claims_review" -> claims_review_node(st)
      [] n = "synthesize" -> synthesize_node(st)
      [] n = "review" -> review_node(st)
      [] n = "refine" -> refinement_node(st)
      [] n = "tone_review" -> tone_review_node(st)
      [] n = "tone_apply" -> tone_apply_node(st)
      [] n = "generate_brief" -> final_brief_node(st)
      [] n = "format" -> formatting_node(st)

\* graph.add_edge / graph.add_conditional_edges: the successor of node n on
\* the state st the node left.
Successor(n, st) ==
    CASE n = "input" -> "search_plan"
      [] n = "search_plan" -> "plan_draft"
      [] n = "plan_draft" -> "plan_review"
      [] n = "plan_review" ->
            IF needs_replan(st) = "replan" THEN "search_plan" ELSE "web_search"
      [] n = "web_search" -> "extract"
      [] n = "extract" -> "prioritize"
      [] n = "prioritize" -> "claims_extract"
      [] n = "claims_extract" -> "claims_review"
      [] n = "claims_review" -> "synthesize"
      [] n = "synthesize" -> "review"
      [] n = "review" ->
            IF needs_revision(st) = "refine" THEN "refine" ELSE "generate_brief"
      [] n = "refine" -> "tone_review"
      [] n = "tone_review" ->
            IF tone_next(st) = "apply" THEN "tone_apply" ELSE "generate_brief"
      [] n = "tone_apply" -> "generate_brief"
      [] n = "generate_brief" -> "format"
      [] n = "format" -> END

\* ------------------------------------------------------------------ state

VARIABLES
    active_sessions,     \* main.py: session id -> session record (with its state dict)
    session_graphs,      \* main.py: session id -> compiled graph (its checkpoint)
    active_connections,  \* ConnectionManager: session id -> list of websockets
    tasks,               \* asyncio tasks: run_session_step_by_step / continue_session
    sockets,             \* the client end of every websocket
    orphans,             \* session records deleted from active_sessions that tasks still hold
    env,                 \* ids handed out, feedback accepted, checkpoints unanswered
    last                 \* what the step just taken did (history)

vars ==
    <<active_sessions, session_graphs, active_connections, tasks, sockets, orphans, env, last>>

\* The websockets clients may open.
WebSockets == {"w1", "w2", "w3"}

Topic == "qc"

Seed == 42

\* A task slot nobody uses.
NoBc ==
    [msg |-> EmptyDict, i |-> 0, cur |-> "", dead |-> <<>>, k |-> "", detached |-> FALSE,
     start |-> {}, got |-> {}]

\* History of a send_update that returned or raised in the step just taken:
\* the sockets in the list when it began, those that got the message, those
\* whose send_json raised, and whether send_update itself raised.
NoBcast == [done |-> FALSE, start |-> {}, got |-> {}, dead |-> {}, raised |-> FALSE]

\* History of the submission that created a continue_session task: what was
\* posted, and the session as it was just before.
NoFb == [ctype |-> "", decision |-> "", parked |-> FALSE, before |-> EmptyDict]

\* replans (history): how often this run took the replan edge.
\* crossed (history): a node_complete of another run of the session was sent
\* after the node_started of the node this task is in.
IdleTask ==
    [kind |-> "none", pc |-> "idle", node |-> "", steps |-> 0, vals |-> EmptyDict,
     waiting |-> FALSE, ctype |-> None, bc |-> NoBc, replans |-> 0, fb |-> NoFb,
     crossed |-> FALSE]

NewTask(kind) == [IdleTask EXCEPT !.kind = kind, !.pc = "sched"]

\* A graph just compiled: MemorySaver holds no checkpoint, a run starts at the
\* entry point.
NewGraph == [vals |-> EmptyDict, next |-> "input"]

NoLast ==
    [op |-> "init", sid |-> "", ctype |-> "", decision |-> "", resp |-> "",
     pub |-> <<>>, ran |-> <<>>, failed |-> "", bcast |-> NoBcast, crossed |-> FALSE,
     view |-> EmptyDict,
     resumed |-> [done |-> FALSE, fb |-> NoFb, vals |-> EmptyDict]]

\* The state as one record, so that the code between two awaits composes.
World ==
    [as |-> active_sessions, sg |-> session_graphs, ac |-> active_connections,
     tasks |-> tasks, socks |-> sockets, orph |-> orphans, env |-> env, last |-> NoLast]

Apply(w) ==
    /\ active_sessions' = w.as
    /\ session_graphs' = w.sg
    /\ active_connections' = w.ac
    /\ tasks' = w.tasks
    /\ sockets' = w.socks
    /\ orphans' = w.orph
    /\ env' = w.env
    /\ last' = w.last

Began(w, op, s) == [w EXCEPT !.last.op = op, !.last.sid = s]

\* The state dict of session s as the tasks of s see it: that of the record
\* in active_sessions, or of the deleted record they still hold ({} when the
\* session has none).
StateOf(w, s) ==
    IF s \in DOMAIN w.as THEN w.as[s].state
    ELSE IF s \in DOMAIN w.orph THEN w.orph[s].state ELSE EmptyDict

\* A write that reaches the record of every session.
SetEverySession(w, s, field, v) ==
    [w EXCEPT !.as = [x \in DOMAIN @ |-> [@[x] EXCEPT ![field] = v]]]

\* session[field] = v, on the record the task holds.
SetSession(w, s, field, v) ==
    IF s \in DOMAIN w.as THEN [w EXCEPT !.as[s][field] = v]
    ELSE IF s \in DOMAIN w.orph THEN [w EXCEPT !.orph[s][field] = v] ELSE w

\* state.update(u) on the dict the session and every task of it share.
\* A state that is replaced by the update instead of merged with it.
UpdateStateReplacing(w, s, u) ==
    IF s \in DOMAIN w.as THEN [w EXCEPT !.as[s].state = u]
    ELSE IF s \in DOMAIN w.orph THEN [w EXCEPT !.orph[s].state = u] ELSE w

UpdateState(w, s, u) ==
    IF s \in DOMAIN w.as THEN [w EXCEPT !.as[s].state = Update(@, u)]
    ELSE IF s \in DOMAIN w.orph THEN [w EXCEPT !.orph[s].state = Update(@, u)] ELSE w

CheckpointOf(w, s) == IF s \in DOMAIN w.sg THEN w.sg[s] ELSE NewGraph

SetCheckpoint(w, s, c) == IF s \in DOMAIN w.sg THEN [w EXCEPT !.sg[s] = c] ELSE w

\* ------------------------------------------------------- ConnectionManager

Msg(type, node, status) ==
    [type |-> type, node |-> node, status |-> status, waiting |-> FALSE,
     checkpoint_type |-> "", data |-> EmptyDict, message |-> ""]

\* list.remove(x): the first occurrence of x is taken out.
Remove(list, x) ==
    LET i == CHOOSE j \in 1..Len(list) : list[j] = x /\ \A h \in 1..(j - 1) : list[h] # x
    IN  SubSeq(list, 1, i - 1) \o SubSeq(list, i + 1, Len(list))

InList(list, x) == \E j \in 1..Len(list) : list[j] = x

\* ConnectionManager.disconnect on the connection table ac.  The result says
\* whether list.remove raised ValueError (the websocket was not in the list).
disconnect(ac, websocket, session_id) ==
    IF session_id \notin DOMAIN ac
    THEN [ac |-> ac, raised |-> FALSE]
    ELSE IF ~InList(ac[session_id], websocket)
         THEN [ac |-> ac, raised |-> TRUE]
         ELSE LET rest == Remove(ac[session_id], websocket)
              IN  [ac |-> IF rest = <<>>
                          THEN [x \in DOMAIN ac \ {session_id} |-> ac[x]]
                          ELSE [ac EXCEPT ![session_id] = rest],
                   raised |-> FALSE]

\* send_update, "Clean up dead connections": disconnect each in turn; the first
\* ValueError ends the loop.
RECURSIVE CleanUp(_, _, _)
CleanUp(ac, dead, session_id) ==
    IF dead = <<>>
    THEN [ac |-> ac, raised |-> FALSE]
    ELSE LET d == disconnect(ac, Head(dead), session_id)
         IN  IF d.raised THEN d ELSE CleanUp(d.ac, Tail(dead), session_id)

\* ------------------------------------------------------------ the executor

RECURSIVE Cont(_, _, _, _)

\* ConnectionManager.send_update called by task r: with no connection of the
\* session it returns at once and the caller goes on (continuation k);
\* otherwise the task awaits the first send_json.
Publish(w, s, r, msg, k) ==
    LET w1 == [w EXCEPT !.last.pub = Append(@, msg)]
    IN  IF s \notin DOMAIN w1.ac
        THEN Cont(w1, s, r, k)
        ELSE [w1 EXCEPT !.tasks[s][r].pc = "send",
                        !.tasks[s][r].bc =
                            [msg |-> msg, i |-> 1, cur |-> w1.ac[s][1], dead |-> <<>>,
                             k |-> k, detached |-> FALSE,
                             start |-> {w1.ac[s][j] : j \in 1..Len(w1.ac[s])},
                             got |-> {}]]

\* The task returns (or dies): its slot is free again, and a deleted record
\* that no task holds any more is garbage.
TaskDone(w, s, r) ==
    LET w1 == [w EXCEPT !.tasks[s][r] = IdleTask]
    IN  IF s \in DOMAIN w1.orph /\ \A x \in TaskIds : w1.tasks[s][x].kind = "none"
        THEN [w1 EXCEPT !.orph = [x \in DOMAIN @ \ {s} |-> @[x]]]
        ELSE w1

\* run_session_step_by_step, except Exception: "if session_id in
\* active_sessions" guards the two writes.
RunExcept(w, s, r, err) ==
    LET w1 == IF s \in DOMAIN w.as
              THEN SetSession(SetSession(w, s, "status", "failed"), s, "error", err)
              ELSE w
    IN  Publish(w1, s, r, [Msg("error", "", "") EXCEPT !.message = err], "dead")

\* continue_session, except Exception.
ContinueExcept(w, s, r, err) ==
    LET w1 == SetSession(SetSession(w, s, "status", "failed"), s, "error", err)
    IN  Publish(w1, s, r, [Msg("error", "", "") EXCEPT !.message = err], "dead")

\* An exception handling that first applies the update of the node in flight.
RaiseApplied(w, s, r, err, k) ==
    LET w1 == IF w.tasks[s][r].pc = "exec"
              THEN UpdateState(w, s, NodeOutput(w.tasks[s][r].node, w.tasks[s][r].vals))
              ELSE w
    IN  IF k = "dead"
        THEN TaskDone(w1, s, r)
        ELSE IF w1.tasks[s][r].kind = "run"
             THEN RunExcept(w1, s, r, err)
             ELSE ContinueExcept(w1, s, r, err)

\* An exception raised in task r while its continuation is k: inside the try
\* block it reaches the except clause, inside the except clause it ends the task.
Raise(w, s, r, err, k) ==
    IF k = "dead"
    THEN TaskDone(w, s, r)
    ELSE IF w.tasks[s][r].kind = "run"
         THEN RunExcept(w, s, r, err)
         ELSE ContinueExcept(w, s, r, err)

\* run_session_step_by_step, "Execution complete".
RunCompleted(w, s, r) ==
    LET w1 == SetSession(SetSession(w, s, "status", "completed"), s,
                         "waiting_for_human", FALSE)
    IN  Publish(w1, s, r, Msg("session_complete", "", "completed"), "done")

\* continue_session, "Complete".
ContinueCompleted(w, s, r) ==
    LET w1 == SetSession(w, s, "status", "completed")
    IN  Publish(w1, s, r, Msg("session_complete", "", "completed"), "done")

\* on_chain_start of a node: node_started is sent.
OnChainStart(w, s, r) ==
    LET t == w.tasks[s][r]
    IN  Publish([w EXCEPT !.tasks[s][r].crossed = FALSE], s, r,
                Msg("node_started", t.node, Get(StateOf(w, s), "status", "running")),
                "exec")

\* A graph run that is never stopped by the step limit.
TickUnlimited(w, s, r) ==
    LET t == w.tasks[s][r]
    IN  IF t.node = END
        THEN IF t.kind = "run" THEN RunCompleted(w, s, r) ELSE ContinueCompleted(w, s, r)
        ELSE OnChainStart(w, s, r)

\* The graph run of task r picks its next step: the stream ends after the last
\* node, GraphRecursionError is raised at the step limit, else the node starts.
Tick(w, s, r) ==
    LET t == w.tasks[s][r]
    IN  IF t.node = END
        THEN IF t.kind = "run" THEN RunCompleted(w, s, r) ELSE ContinueCompleted(w, s, r)
        ELSE IF t.steps >= RecursionLimit
             THEN Raise(w, s, r, "GraphRecursionError", "tick")
             ELSE OnChainStart(w, s, r)

\* graph.astream_events(state, ...) of run_session_step_by_step: the run starts
\* at the entry point on the state dict passed in.
Astream(w, s, r) ==
    LET vals == Update(CheckpointOf(w, s).vals, StateOf(w, s))
        w1 == [w EXCEPT !.tasks[s][r].vals = vals,
                        !.tasks[s][r].node = "input",
                        !.tasks[s][r].steps = 0]
    IN  Tick(SetCheckpoint(w1, s, [vals |-> vals, next |-> "input"]), s, r)

\* After node_complete was sent: "If waiting for human, pause execution",
\* else the graph goes on with the successor of the node.
AfterNodeComplete(w, s, r) ==
    LET t == w.tasks[s][r]
        next == Successor(t.node, t.vals)
    IN  IF t.waiting
        THEN TaskDone([SetSession(SetSession(w, s, "waiting_for_human", TRUE), s,
                                  "checkpoint_type", t.ctype)
                          EXCEPT !.env.unanswered[s] = TRUE], s, r)
        ELSE Tick([w EXCEPT !.tasks[s][r].node = next,
                            !.tasks[s][r].replans =
                                IF t.node = "plan_review" /\ next = "search_plan"
                                THEN @ + 1 ELSE @], s, r)

Cont(w, s, r, k) ==
    CASE k = "astream" -> Astream(w, s, r)
      [] k = "exec" -> [w EXCEPT !.tasks[s][r].pc = "exec"]
      [] k = "after_complete" -> AfterNodeComplete(w, s, r)
      [] OTHER -> TaskDone(w, s, r)

\* get_checkpoint_data: the payload shown for a checkpoint type ({} for None).
get_checkpoint_data(state, checkpoint_type) ==
    CASE checkpoint_type = "plan_review" ->
            ("type" :> "plan_review") @@ ("plan_summary" :> Get(state, "plan_summary", ""))
                @@ ("queries" :> Get(state, "search_queries", ""))
      [] checkpoint_type = "claims_review" ->
            ("type" :> "claims_review") @@ ("claims" :> Get(state, "claims", ""))
                @@ ("citation_map" :> Get(state, "citation_map", ""))
      [] checkpoint_type = "tone_review" ->
            ("type" :> "tone_review") @@ ("outline_preview" :> Get(state, "outline", ""))
      [] checkpoint_type = "review" ->
            ("type" :> "review") @@ ("outline" :> Get(state, "outline", ""))
      [] OTHER -> EmptyDict

\* Where a run resumed from the checkpoint written after node n goes on: at n
\* itself when n suspended (the node runs again, now with the decision), else
\* at the successor of n.
CheckpointNext(n, vals) == IF Get(vals, W, FALSE) THEN n ELSE Successor(n, vals)

\* The graph finishes the node of task r with output out: the output is merged
\* into the values of the run and the checkpoint of the thread is written.
GraphStep(w, s, r, out) ==
    LET t == w.tasks[s][r]
        vals == Update(t.vals, out)
        w1 == [w EXCEPT !.tasks[s][r].vals = vals,
                        !.tasks[s][r].steps = t.steps + 1,
                        !.last.ran = Append(@, t.node)]
    IN  SetCheckpoint(w1, s, [vals |-> vals, next |-> CheckpointNext(t.node, vals)])

\* on_chain_end of a node with a dict output: "Update state with node output",
\* then node_complete is sent.
OnChainEnd(w, s, r, node_output) ==
    LET t == w.tasks[s][r]
        w1 == UpdateState(w, s, node_output)
        state == StateOf(w1, s)
        current_status == Get(state, "status", "unknown")
        waiting == Get(state, W, FALSE)
        checkpoint_type == Get(state, CT, None)
        update == [Msg("node_complete", t.node, current_status) EXCEPT
                      !.waiting = waiting,
                      !.checkpoint_type =
                          IF waiting /\ checkpoint_type # None THEN checkpoint_type ELSE "",
                      !.data =
                          IF waiting /\ checkpoint_type # None
                          THEN get_checkpoint_data(state, checkpoint_type) ELSE EmptyDict]
        InNode(x) == \/ x.pc = "exec"
                     \/ x.pc = "send" /\ x.bc.k = "exec"
        w2 == [w1 EXCEPT !.tasks[s] = [x \in TaskIds |->
                             IF x = r
                             THEN [@[x] EXCEPT !.waiting = waiting,
                                               !.ctype = checkpoint_type,
                                               !.crossed = FALSE]
                             ELSE IF InNode(@[x]) THEN [@[x] EXCEPT !.crossed = TRUE]
                             ELSE @[x]],
                         !.last.crossed = @ \/ t.crossed]
    IN  Publish(w2, s, r, update, "after_complete")

\* A run that announces itself with an event of a type of its own.
RunBeginAnnounced(w, s, r) ==
    IF s \notin DOMAIN w.as
    THEN RunExcept(w, s, r, "KeyError")
    ELSE LET w1 == [w EXCEPT !.sg = Update(@, s :> NewGraph),
                             !.as[s].state = ("topic" :> w.as[s].topic)
                                                 @@ ("seed" :> w.as[s].seed),
                             !.as[s].status = "running"]
         IN  Publish(w1, s, r, Msg("session_started", "input", "running"), "astream")

\* run_session_step_by_step after its sleep, up to the first send_update.
RunBegin(w, s, r) ==
    IF s \notin DOMAIN w.as
    THEN RunExcept(w, s, r, "KeyError")
    ELSE LET w1 == [w EXCEPT !.sg = Update(@, s :> NewGraph),
                             !.as[s].state = ("topic" :> w.as[s].topic)
                                                 @@ ("seed" :> w.as[s].seed),
                             !.as[s].status = "running"]
         IN  Publish(w1, s, r, Msg("status_update", "input", "running"), "astream")

\* graph.update_state(config, state): the state dict is merged into the
\* checkpoint of the thread.
update_state(w, s) ==
    LET c == CheckpointOf(w, s)
    IN  SetCheckpoint(w, s, [c EXCEPT !.vals = Update(@, StateOf(w, s))])

\* A resume that rebuilds the graph of its session before it looks for the
\* session record.
ContinueBeginRebuilding(w, s, r) ==
    IF s \notin DOMAIN w.as
    THEN TaskDone([w EXCEPT !.sg = Update(@, s :> NewGraph)], s, r)
    ELSE LET w1 == SetSession(SetSession(w, s, "waiting_for_human", FALSE), s,
                              "checkpoint_type", None)
         IN  IF DOMAIN StateOf(w1, s) = {}
             THEN TaskDone(w1, s, r)
             ELSE LET w2 == UpdateState(w1, s, (W :> FALSE) @@ (CT :> None))
                      w3 == IF s \in DOMAIN w2.sg
                            THEN w2 ELSE [w2 EXCEPT !.sg = Update(@, s :> NewGraph)]
                      w4 == update_state(w3, s)
                      c == CheckpointOf(w4, s)
                  IN  Tick([w4 EXCEPT !.tasks[s][r].vals = c.vals,
                                      !.tasks[s][r].node = c.next,
                                      !.tasks[s][r].steps = 0,
                                      !.tasks[s][r].fb = NoFb,
                                      !.last.resumed =
                                          [done |-> TRUE, fb |-> w.tasks[s][r].fb,
                                           vals |-> c.vals]], s, r)

\* continue_session up to the first event of the resumed run.
ContinueBegin(w, s, r) ==
    IF s \notin DOMAIN w.as
    THEN TaskDone(w, s, r)
    ELSE LET w1 == SetSession(SetSession(w, s, "waiting_for_human", FALSE), s,
                              "checkpoint_type", None)
         IN  IF DOMAIN StateOf(w1, s) = {}
             THEN TaskDone(w1, s, r)
             ELSE LET w2 == UpdateState(w1, s, (W :> FALSE) @@ (CT :> None))
                      w3 == IF s \in DOMAIN w2.sg
                            THEN w2 ELSE [w2 EXCEPT !.sg = Update(@, s :> NewGraph)]
                      w4 == update_state(w3, s)
                      c == CheckpointOf(w4, s)
                  IN  Tick([w4 EXCEPT !.tasks[s][r].vals = c.vals,
                                      !.tasks[s][r].node = c.next,
                                      !.tasks[s][r].steps = 0,
                                      !.tasks[s][r].fb = NoFb,
                                      !.last.resumed =
                                          [done |-> TRUE, fb |-> w.tasks[s][r].fb,
                                           vals |-> c.vals]], s, r)

\* ------------------------------------------------------------------ actions

CheckpointTypes == {"plan_review", "claims_review", "review", "tone_review"}

\* The checkpoint_type values a client may post: the four types and one other.
PostedTypes == CheckpointTypes \cup {"bogus"}

\* Every decision is stored as the decision on the plan.
FeedbackFieldOfPlan(checkpoint_type) == "plan_feedback"

FeedbackField(checkpoint_type) ==
    CASE checkpoint_type = "plan_review" -> "plan_feedback"
      [] checkpoint_type = "claims_review" -> "claims_feedback"
      [] checkpoint_type = "review" -> "human_feedback"
      [] checkpoint_type = "tone_review" -> "tone_prefs"

FreeSlots(w, s) == {r \in TaskIds : w.tasks[s][r].kind = "none"}

\* asyncio.create_task: the new task takes the first free slot.
CreateTask(w, s, kind, fb) ==
    LET r == CHOOSE x \in FreeSlots(w, s) : \A y \in FreeSlots(w, s) : x <= y
    IN  [w EXCEPT !.tasks[s][r] = [NewTask(kind) EXCEPT !.fb = fb]]

\* POST /sessions/start
start_session(w, s) ==
    LET rec == [topic |-> Topic, seed |-> Seed, status |-> "initializing",
                state |-> EmptyDict, waiting_for_human |-> FALSE,
                checkpoint_type |-> None, error |-> ""]
        w1 == [w EXCEPT !.as = Update(@, s :> rec), !.env.created = @ \cup {s},
                        !.last.resp = "started"]
    IN  CreateTask(w1, s, "run", NoFb)

StartSession(s) ==
    /\ s \notin env.created
    /\ Apply(start_session(Began(World, "start_session", s), s))

\* A feedback handler that stores the decision before it looks at the type.
submit_feedback_unvalidated(w, session_id, checkpoint_type, decision) ==
    IF session_id \notin DOMAIN w.as
    THEN [w EXCEPT !.last.resp = "404"]
    ELSE IF DOMAIN StateOf(w, session_id) = {}
         THEN [w EXCEPT !.last.resp = "400 Session state not available"]
         ELSE LET w1 == UpdateState(w, session_id, "human_feedback" :> decision)
              IN  IF checkpoint_type \notin CheckpointTypes
                  THEN [w1 EXCEPT !.last.resp = "400 Unknown checkpoint"]
                  ELSE CreateTask(
                           [UpdateState(w, session_id,
                                        FeedbackField(checkpoint_type) :> decision)
                               EXCEPT !.env.accepted[session_id] = @ + 1,
                                      !.env.overlaps[session_id] =
                                          IF FreeSlots(w, session_id) = TaskIds
                                          THEN @ ELSE @ + 1,
                                      !.env.unanswered[session_id] = FALSE,
                                      !.last.resp = "feedback_received"],
                           session_id, "continue",
                           [ctype |-> checkpoint_type, decision |-> decision,
                            parked |-> w.as[session_id].waiting_for_human,
                            before |-> StateOf(w, session_id)])

\* A feedback handler that acknowledges without scheduling continue_session.
submit_feedback_unscheduled(w, session_id, checkpoint_type, decision) ==
    IF session_id \notin DOMAIN w.as
    THEN [w EXCEPT !.last.resp = "404"]
    ELSE IF DOMAIN StateOf(w, session_id) = {}
         THEN [w EXCEPT !.last.resp = "400 Session state not available"]
         ELSE IF checkpoint_type \notin CheckpointTypes
              THEN [w EXCEPT !.last.resp = "400 Unknown checkpoint"]
              ELSE [UpdateState(w, session_id, FeedbackField(checkpoint_type) :> decision)
                       EXCEPT !.env.accepted[session_id] = @ + 1,
                              !.env.unanswered[session_id] = FALSE,
                              !.last.resp = "feedback_received"]

\* POST /sessions/{session_id}/feedback
submit_feedback(w, session_id, checkpoint_type, decision) ==
    IF session_id \notin DOMAIN w.as
    THEN [w EXCEPT !.last.resp = "404"]
    ELSE IF DOMAIN StateOf(w, session_id) = {}
         THEN [w EXCEPT !.last.resp = "400 Session state not available"]
         ELSE IF checkpoint_type \notin CheckpointTypes
              THEN [w EXCEPT !.last.resp = "400 Unknown checkpoint"]
              ELSE LET w1 == UpdateState(w, session_id,
                                         FeedbackField(checkpoint_type) :> decision)
                       w2 == [w1 EXCEPT !.env.accepted[session_id] = @ + 1,
                                        !.env.overlaps[session_id] =
                                            IF FreeSlots(w, session_id) = TaskIds
                                            THEN @ ELSE @ + 1,
                                        !.env.unanswered[session_id] = FALSE,
                                        !.last.resp = "feedback_received"]
                   IN  CreateTask(w2, session_id, "continue",
                                  [ctype |-> checkpoint_type, decision |-> decision,
                                   parked |-> w.as[session_id].waiting_for_human,
                                   before |-> StateOf(w, session_id)])

\* DELETE /sessions/{session_id}: the record leaves active_sessions (the tasks
\* of the session keep the object), the graph leaves session_graphs.
delete_session(w, session_id) ==
    IF session_id \notin DOMAIN w.as
    THEN [w EXCEPT !.last.resp = "404"]
    ELSE [w EXCEPT !.as = [x \in DOMAIN @ \ {session_id} |-> @[x]],
                   !.sg = [x \in DOMAIN @ \ {session_id} |-> @[x]],
                   !.orph = IF \E r \in TaskIds : w.tasks[session_id][r].kind # "none"
                            THEN Update(@, session_id :> w.as[session_id]) ELSE @,
                   !.last.resp = "deleted"]

DeleteSession(s) ==
    /\ s \in env.created
    /\ Apply(delete_session(Began(World, "delete_session", s), s))

\* SessionStatusResponse as get_session_status builds it from a session record
\* (checkpoint_data None is the empty dict).
SessionStatusResponse(session) ==
    LET state == session.state
        current_status ==
            IF DOMAIN state # {} THEN Get(state, "status", None) ELSE session.status
        waiting_for_human == session.waiting_for_human
        checkpoint_type == session.checkpoint_type
    IN  [status |-> session.status,
         current_node |-> current_status,
         waiting_for_human |-> waiting_for_human,
         checkpoint_type |-> checkpoint_type,
         checkpoint_data |->
             IF waiting_for_human /\ checkpoint_type # None /\ DOMAIN state # {}
             THEN get_checkpoint_data(state, checkpoint_type) ELSE EmptyDict]

\* GET /sessions/{session_id}/status
get_session_status(w, session_id) ==
    IF session_id \notin DOMAIN w.as
    THEN [w EXCEPT !.last.resp = "404"]
    ELSE [w EXCEPT !.last.resp = "status",
                   !.last.view = SessionStatusResponse(w.as[session_id])]

\* A client asks for the status of a session that is parked.
QueryParked(s) ==
    /\ s \in DOMAIN active_sessions
    /\ active_sessions[s].waiting_for_human
    /\ Apply(get_session_status(Began(World, "get_session_status", s), s))

\* No task of session s is scheduled or running.
Quiet(s) == \A r \in TaskIds : tasks[s][r].kind = "none"

Accepts(s, checkpoint_type) ==
    /\ s \in DOMAIN active_sessions
    /\ DOMAIN active_sessions[s].state # {}
    /\ checkpoint_type \in CheckpointTypes

\* approved (history): every answer accepted so far was "approve", posted for
\* the checkpoint the session was parked at.
Post(s, checkpoint_type, decision) ==
    LET w == submit_feedback(
                 [Began(World, "submit_feedback", s) EXCEPT
                     !.last.ctype = checkpoint_type, !.last.decision = decision],
                 s, checkpoint_type, decision)
        asked == /\ active_sessions[s].waiting_for_human
                 /\ active_sessions[s].checkpoint_type = checkpoint_type
                 /\ decision = "approve"
    IN  Apply(IF w.last.resp = "feedback_received"
              THEN [w EXCEPT !.env.approved[s] = @ /\ asked]
              ELSE w)

\* A client posts feedback at any time.
SubmitFeedback(s) ==
    \E checkpoint_type \in PostedTypes, decision \in Decisions :
        /\ Accepts(s, checkpoint_type) =>
               /\ env.accepted[s] < MaxFeedback
               /\ Quiet(s) \/ env.overlaps[s] < MaxOverlap
        /\ Post(s, checkpoint_type, decision)

\* A client posts feedback only while no task of the session is alive.
SubmitWhenQuiet(s) ==
    \E checkpoint_type \in PostedTypes, decision \in Decisions :
        /\ Accepts(s, checkpoint_type) => env.accepted[s] < MaxSeqFeedback /\ Quiet(s)
        /\ Post(s, checkpoint_type, decision)

\* A client approves the plan of a session that has a state, while no task
\* of the session is alive.
SubmitOnce(s) ==
    /\ Accepts(s, "plan_review")
    /\ env.accepted[s] < MaxMultiFeedback
    /\ Quiet(s)
    /\ Post(s, "plan_review", "approve")

\* A client deletes a session that exists.
DeleteLive(s) == s \in DOMAIN active_sessions /\ DeleteSession(s)

\* A task created by asyncio.create_task starts running (the first run after
\* its asyncio.sleep).
TaskStart(s) ==
    \E r \in TaskIds :
        /\ tasks[s][r].pc = "sched"
        /\ Apply(IF tasks[s][r].kind = "run"
                 THEN RunBegin(Began(World, "task", s), s, r)
                 ELSE ContinueBegin(Began(World, "task", s), s, r))

\* The node a task awaits returns its update.
NodeReturn(s, cap) ==
    \E r \in TaskIds :
        /\ tasks[s][r].pc = "exec"
        /\ tasks[s][r].steps < cap
        /\ LET out == NodeOutput(tasks[s][r].node, tasks[s][r].vals)
           IN  Apply(OnChainEnd(GraphStep(Began(World, "task", s), s, r, out), s, r, out))

\* The node a task awaits raises.
NodeRaise(s) ==
    \E r \in TaskIds :
        /\ tasks[s][r].pc = "exec"
        /\ Apply(Raise([Began(World, "task", s) EXCEPT !.last.failed = tasks[s][r].node],
                       s, r, "stage error", "exec"))

\* The claims_extract node a task awaits gets the text raw from the model and
\* returns its update or raises.
ExtractClaims(s) ==
    \E r \in TaskIds, raw \in RawTexts :
        /\ tasks[s][r].pc = "exec"
        /\ tasks[s][r].node = "claims_extract"
        /\ LET res == claims_extract_text(raw)
               w == [Began(World, "task", s) EXCEPT !.last.view = [raw |-> raw]]
           IN  IF res.raised
               THEN Apply(Raise([w EXCEPT !.last.failed = "claims_extract"],
                                s, r, res.err, "exec"))
               ELSE Apply(OnChainEnd(GraphStep(w, s, r, res.out), s, r, res.out))

\* Any other node a task awaits returns its update.
OtherNodeReturn(s) ==
    /\ \A r \in TaskIds : tasks[s][r].node # "claims_extract"
    /\ NodeReturn(s, RecursionLimit)

\* ---------------------------------------------------------------- websockets

\* The sockets whose received messages the model records.
Observed == {"w1", "w2"}

\* A list of a session left the connection table: a send_update that iterates
\* it goes on with the detached (now empty) list object.
Detach(w, ac, s) ==
    IF s \in DOMAIN w.ac /\ s \notin DOMAIN ac
    THEN [w EXCEPT !.ac = ac,
                   !.tasks[s] = [r \in TaskIds |->
                       IF @[r].pc = "send" THEN [@[r] EXCEPT !.bc.detached = TRUE] ELSE @[r]]]
    ELSE [w EXCEPT !.ac = ac]

\* websocket.send_json(message) reaches the client.
Received(w, c, msg) ==
    IF c \in Observed /\ msg.type = "node_complete"
    THEN [w EXCEPT !.socks[c].rcv = Append(@, msg.node)]
    ELSE w

\* websocket_endpoint: manager.connect, then "Send current status immediately".
websocket_endpoint(w, c, s) ==
    LET w1 == [w EXCEPT !.ac = Update(@, s :> (IF s \in DOMAIN @ THEN @[s] ELSE <<>>) \o <<c>>),
                        !.socks[c].st = "open", !.socks[c].sid = s,
                        !.socks[c].early =
                            s \in DOMAIN w.as => w.as[s].status = "initializing"]
        connected == [Msg("connected", Get(StateOf(w1, s), "status", None), w1.as[s].status)
                         EXCEPT !.waiting = w1.as[s].waiting_for_human]
    IN  IF s \in DOMAIN w1.as
        THEN [Received(w1, c, connected) EXCEPT !.last.view = [to |-> c, msg |-> connected]]
        ELSE w1

ConnectAs(c, s) ==
    /\ sockets[c].st = "new"
    /\ Apply(websocket_endpoint(Began(World, "connect", s), c, s))

Connect(s) == \E c \in WebSockets : ConnectAs(c, s)

\* websocket_endpoint, "Keep connection alive": the text a client sends is
\* echoed back as a pong message.
KeepAlive(s) ==
    \E c \in WebSockets :
        /\ sockets[c].st = "open" /\ sockets[c].sid = s
        /\ LET w == Began(World, "receive_text", s)
               pong == Msg("pong", "", "")
           IN  Apply([Received(w, c, pong) EXCEPT !.last.view = [to |-> c, msg |-> pong]])

\* The client of an open websocket goes away: send_json raises from now on and
\* receive_text will raise WebSocketDisconnect.
ClientClose(s) ==
    \E c \in WebSockets :
        /\ sockets[c].st = "open" /\ sockets[c].sid = s
        /\ Apply([Began(World, "close", s) EXCEPT !.socks[c].st = "broken"])

\* websocket_endpoint, except WebSocketDisconnect: manager.disconnect.
EndpointDisconnect(s) ==
    \E c \in WebSockets :
        /\ sockets[c].st = "broken" /\ sockets[c].sid = s
        /\ LET w == [Began(World, "disconnect", s) EXCEPT !.socks[c].st = "closed"]
           IN  Apply(Detach(w, disconnect(w.ac, c, s).ac, s))

\* send_update of task r after the send_json it awaited: the loop goes on with
\* the next index of the list, or ends, cleans up and returns to its caller.
SendNext(w, s, r, failed) ==
    LET t == w.tasks[s][r]
        dead == IF failed THEN Append(t.bc.dead, t.bc.cur) ELSE t.bc.dead
        got == IF failed THEN t.bc.got ELSE t.bc.got \cup {t.bc.cur}
        list == IF s \in DOMAIN w.ac /\ ~t.bc.detached THEN w.ac[s] ELSE <<>>
    IN  IF t.bc.i + 1 <= Len(list)
        THEN [w EXCEPT !.tasks[s][r].bc.i = t.bc.i + 1,
                       !.tasks[s][r].bc.cur = list[t.bc.i + 1],
                       !.tasks[s][r].bc.dead = dead,
                       !.tasks[s][r].bc.got = got]
        ELSE LET d == CleanUp(w.ac, dead, s)
                 w1 == [Detach(w, d.ac, s) EXCEPT
                           !.tasks[s][r].bc = NoBc,
                           !.last.bcast =
                               [done |-> TRUE, start |-> t.bc.start, got |-> got,
                                dead |-> {dead[j] : j \in 1..Len(dead)},
                                raised |-> d.raised]]
             IN  IF d.raised
                 THEN Raise(w1, s, r, "ValueError", t.bc.k)
                 ELSE Cont(w1, s, r, t.bc.k)

\* The send_json a task awaits in send_update returns or raises.
Deliver(s) ==
    \E r \in TaskIds :
        /\ tasks[s][r].pc = "send"
        /\ LET c == tasks[s][r].bc.cur
               w == Began(World, "task", s)
           IN  IF sockets[c].st = "open"
               THEN Apply(SendNext(Received(w, c, tasks[s][r].bc.msg), s, r, FALSE))
               ELSE Apply(SendNext(w, s, r, TRUE))

\* The console program before main() has run.
IdleConsole ==
    [pc |-> "idle", non_interactive |-> FALSE, seed |-> Seed, node |-> "",
     state |-> EmptyDict, asked |-> {}, steps |-> 0, replans |-> 0]

Init ==
    /\ active_sessions = EmptyDict
    /\ session_graphs = EmptyDict
    /\ active_connections = EmptyDict
    /\ tasks = [s \in Sessions |-> [r \in TaskIds |-> IdleTask]]
    /\ sockets = [c \in WebSockets |-> [st |-> "new", sid |-> "", rcv |-> <<>>, early |-> FALSE]]
    /\ orphans = EmptyDict
    /\ env = [created |-> {}, accepted |-> [s \in Sessions |-> 0],
              overlaps |-> [s \in Sessions |-> 0],
              unanswered |-> [s \in Sessions |-> FALSE],
              approved |-> [s \in Sessions |-> TRUE],
              console |-> IdleConsole]
    /\ last = NoLast

Next ==
    \E s \in FirstSession :
        \/ StartSession(s)
        \/ SubmitFeedback(s)
        \/ TaskStart(s)
        \/ NodeReturn(s, MaxRunSteps)
        \/ NodeRaise(s)

Spec == Init /\ [][Next]_vars

\* The same program with a client that waits for the session to be quiet.
NextSeq ==
    \E s \in FirstSession :
        \/ StartSession(s)
        \/ SubmitWhenQuiet(s)
        \/ TaskStart(s)
        \/ NodeReturn(s, RecursionLimit)
        \/ NodeRaise(s)

SpecSeq == Init /\ [][NextSeq]_vars

\* The first run of a session with websocket clients coming and going.
NextWs ==
    \E s \in FirstSession :
        \/ StartSession(s)
        \/ TaskStart(s)
        \/ NodeReturn(s, MaxWsSteps)
        \/ Connect(s)
        \/ ClientClose(s)
        \/ EndpointDisconnect(s)
        \/ Deliver(s)

SpecWs == Init /\ [][NextWs]_vars

\* One session that is deleted at any time while websocket clients subscribe.
NextDel ==
    \E s \in FirstSession :
        \/ StartSession(s)
        \/ DeleteSession(s)
        \/ TaskStart(s)
        \/ NodeReturn(s, MaxDelSteps)
        \/ \E c \in Observed : ConnectAs(c, s)
        \/ Deliver(s)

SpecDel == Init /\ [][NextDel]_vars

\* Two sessions that are started, fail, are answered and deleted while two
\* websocket clients subscribe to either.
NextMulti ==
    \E s \in Sessions :
        \/ StartSession(s)
        \/ SubmitOnce(s)
        \/ DeleteLive(s)
        \/ TaskStart(s)
        \/ NodeReturn(s, MaxMultiSteps)
        \/ NodeRaise(s)
        \/ \E c \in Observed : ConnectAs(c, s)
        \/ Deliver(s)

SpecMulti == Init /\ [][NextMulti]_vars

\* The human answers the checkpoint the session is parked at: "approve", or
\* "skip" for the tone checkpoint.
Approve(s) ==
    /\ s \in DOMAIN active_sessions
    /\ active_sessions[s].waiting_for_human
    /\ env.unanswered[s]
    /\ Quiet(s)
    /\ LET checkpoint_type == active_sessions[s].checkpoint_type
       IN  Post(s, checkpoint_type,
                IF checkpoint_type = "tone_review" THEN "skip" ELSE "approve")

\* The websockets that subscribe to a session answered by an approving human.
LiveSockets == {"w1", "w3"}

\* A session whose stage functions all return and whose checkpoints are all
\* approved, with websocket clients coming and going.
NextLive ==
    \E s \in FirstSession :
        \/ StartSession(s)
        \/ Approve(s)
        \/ TaskStart(s)
        \/ NodeReturn(s, RecursionLimit)
        \/ \E c \in LiveSockets : ConnectAs(c, s)
        \/ KeepAlive(s)
        \/ ClientClose(s)
        \/ EndpointDisconnect(s)
        \/ Deliver(s)

\* A step of the engine or of the human on session s, and the condition under
\* which one is possible: a task of s is ready to run, or s is parked with its
\* checkpoint unanswered.
Engine(s) == TaskStart(s) \/ NodeReturn(s, RecursionLimit) \/ Deliver(s) \/ Approve(s)

Ready(s) ==
    \/ \E r \in TaskIds :
           \/ tasks[s][r].pc \in {"sched", "send"}
           \/ tasks[s][r].pc = "exec" /\ tasks[s][r].steps < RecursionLimit
    \/ /\ s \in DOMAIN active_sessions
       /\ active_sessions[s].waiting_for_human
       /\ env.unanswered[s]
       /\ Quiet(s)

\* The event loop runs every task that is ready, every stage function and every
\* send_json returns or raises, and the human answers every checkpoint: weak
\* fairness of Engine(s), that is WF_vars(Engine(s)) with its enabling
\* condition written out as Ready(s).
SpecLive ==
    /\ Init
    /\ [][NextLive]_vars
    /\ \A s \in FirstSession : []<>(~Ready(s)) \/ []<><<Engine(s)>>_vars

\* Spec with a client that also asks for the status of the parked session.
NextQuery ==
    \E s \in FirstSession :
        \/ StartSession(s)
        \/ SubmitFeedback(s)
        \/ QueryParked(s)
        \/ TaskStart(s)
        \/ NodeReturn(s, MaxQuerySteps)
        \/ NodeRaise(s)

SpecQuery == Init /\ [][NextQuery]_vars

\* A session with an approving client and its subscribers, whose
\* claims_extract node is answered with texts of every shape.
NextClaims ==
    \E s \in FirstSession :
        \/ StartSession(s)
        \/ Approve(s)
        \/ TaskStart(s)
        \/ OtherNodeReturn(s)
        \/ ExtractClaims(s)
        \/ \E c \in LiveSockets : ConnectAs(c, s)
        \/ Deliver(s)

SpecClaims == Init /\ [][NextClaims]_vars

\* The texts a client may post as its decision: the sentinels, a text that
\* str.strip and str.lower turn into the approval, nothing, and a revision.
GateTexts == {"approve", "Approve ", "pending", "", "revise"}

\* A client answers the open checkpoint of a parked session with any text.
SubmitText(s) ==
    \E decision \in GateTexts :
        /\ s \in DOMAIN active_sessions
        /\ active_sessions[s].waiting_for_human
        /\ Quiet(s)
        /\ env.accepted[s] < MaxSeqFeedback
        /\ Post(s, active_sessions[s].checkpoint_type, decision)

\* A session whose checkpoints are answered one at a time with any text.
NextGate ==
    \E s \in FirstSession :
        \/ StartSession(s)
        \/ SubmitText(s)
        \/ TaskStart(s)
        \/ NodeReturn(s, RecursionLimit)
        \/ NodeRaise(s)

SpecGate == Init /\ [][NextGate]_vars

\* The texts a client may post as tone preferences: the sentinels, with and
\* without surrounding whitespace, nothing, and a preference.
ToneTexts == {"skip", "skip ", "pending", "", "warmer"}

\* A client posts tone preferences for a session that has a state, whatever
\* checkpoint is open.
SubmitTone(s) ==
    \E decision \in ToneTexts :
        /\ Accepts(s, "tone_review")
        /\ Quiet(s)
        /\ env.accepted[s] < MaxToneFeedback
        /\ Post(s, "tone_review", decision)

\* A session whose checkpoints are answered one at a time with any text and
\* whose tone preferences may be posted in between.
NextTone ==
    \/ NextGate
    \/ \E s \in FirstSession : SubmitTone(s)

SpecTone == Init /\ [][NextTone]_vars

\* A client posts a decision for a checkpoint other than the one the session
\* is parked at.
SubmitStray(s) ==
    \E checkpoint_type \in CheckpointTypes, decision \in Decisions :
        /\ s \in DOMAIN active_sessions
        /\ active_sessions[s].waiting_for_human
        /\ checkpoint_type # active_sessions[s].checkpoint_type
        /\ Quiet(s)
        /\ env.accepted[s] < MaxSeqFeedback
        /\ Post(s, checkpoint_type, decision)

\* A session whose client posts one decision at a time, for the open
\* checkpoint or for another one.
NextStray ==
    \/ NextGate
    \/ \E s \in FirstSession : SubmitStray(s)

SpecStray == Init /\ [][NextStray]_vars

\* ------------------------------------------------------------ sized values
\* A slice that keeps the whole sequence.
TakeAll(seq, n) == seq

\* Python's seq[:n].
Take(seq, n) == SubSeq(seq, 1, IF Len(seq) < n THEN Len(seq) ELSE n)

\* The lines of a generated query text: a blank line, a bulleted query and a
\* plain query.
QueryLines == {"", "- q", "q"}

\* search_plan_node's reading of the generated text: the non-blank lines,
\* without bullet, cut to five.
search_queries_of(lines) ==
    LET RECURSIVE kept(_)
        kept(ls) ==
            IF ls = <<>> THEN <<>>
            ELSE IF Head(ls) = "" THEN kept(Tail(ls))
            ELSE <<IF Head(ls) = "- q" THEN "q" ELSE Head(ls)>> \o kept(Tail(ls))
    IN  Take(kept(lines), 5)

\* The lengths of the outlines the model may generate, around the length of
\* the preview.
OutlineLengths == {0, 499, 500, 501, 1200}

\* get_checkpoint_data on a state whose claims are the list claims and whose
\* outline has outline_len characters: the claims shown and the length of
\* the outline shown.
CheckpointSizes(claims, outline_len, checkpoint_type) ==
    CASE checkpoint_type = "claims_review" -> [claims |-> Take(claims, 6)]
      [] checkpoint_type = "tone_review" ->
             [outline_preview |-> IF outline_len < 500 THEN outline_len ELSE 500]
      [] checkpoint_type = "review" -> [outline |-> outline_len]
      [] OTHER -> EmptyDict

\* search_plan_node gets a text of up to MaxLines lines from the model.
PlanQueries ==
    \E n \in 0..MaxLines : \E lines \in [1..n -> QueryLines] :
        /\ last' = [NoLast EXCEPT !.op = "search_plan",
                                  !.view = [lines |-> lines,
                                            search_queries |-> search_queries_of(lines)]]
        /\ UNCHANGED <<active_sessions, session_graphs, active_connections, tasks,
                       sockets, orphans, env>>

\* The payload of a checkpoint is built from a state with n claims and an
\* outline of some length.
ShowCheckpoint ==
    \E n \in 0..MaxClaims, outline_len \in OutlineLengths,
       checkpoint_type \in {"claims_review", "tone_review", "review"} :
        /\ last' = [NoLast EXCEPT
                        !.op = "get_checkpoint_data",
                        !.ctype = checkpoint_type,
                        !.view = [claims |-> [i \in 1..n |-> i],
                                  outline_len |-> outline_len,
                                  data |-> CheckpointSizes([i \in 1..n |-> i],
                                                           outline_len, checkpoint_type)]]
        /\ UNCHANGED <<active_sessions, session_graphs, active_connections, tasks,
                       sockets, orphans, env>>

NextSized == PlanQueries \/ ShowCheckpoint

SpecSized == Init /\ [][NextSized]_vars

\* --------------------------------------------------------- console pipeline
\* What the terminal gives to one call of input(): a line, or end of input.
EOF == "<EOF>"
ConsoleChoices == {"1", "2", EOF}
ConsoleTexts == {"", "Approve ", "shorter", EOF}
ConsoleSeeds == {Seed, 7}

\* A search_plan_node that leaves plan_feedback as it found it.
console_search_plan_keeping(st) == "status" :> "search_planning"

\* search_plan_node of the console graph: the queries are planned with the
\* constraints of plan_feedback, and plan_feedback is reset to the approval.
console_search_plan(st) ==
    ("plan_feedback" :> "approve") @@ ("status" :> "search_planning")

\* A node of the console graph on state st; ans.choice and ans.text are what
\* input() gives if the node calls it.  The result is the update the node
\* returns and whether it called input().
console_node(n, st, ans) ==
    LET quiet(out) == [asked |-> FALSE, out |-> out]
        menu(field, status, sentinel) ==
            LET existing == Strip(Get(st, field, ""))
                typed == IF ans.text = EOF THEN sentinel
                         ELSE IF Strip(ans.text) = "" THEN sentinel
                         ELSE Strip(ans.text)
            IN  IF existing # ""
                THEN quiet((field :> existing) @@ ("status" :> status))
                ELSE [asked |-> TRUE,
                      out |-> (field :> (IF ans.choice = "2" THEN typed ELSE sentinel))
                                  @@ ("status" :> status)]
    IN  CASE n = "input" -> quiet("status" :> "input")
          [] n = "search_plan" -> quiet(console_search_plan(st))
          [] n = "plan_draft" -> quiet("status" :> "plan_drafting")
          [] n = "plan_review" -> menu("plan_feedback", "plan_review", "approve")
          [] n = "web_search" -> quiet("status" :> "searching")
          [] n = "extract" -> quiet("status" :> "extracting")
          [] n = "prioritize" -> quiet("status" :> "prioritizing")
          [] n = "claims_extract" -> quiet("status" :> "claims_extracting")
          [] n = "claims_review" -> menu("claims_feedback", "claims_review", "approve")
          [] n = "synthesize" -> quiet("status" :> "synthesizing")
          [] n = "review" ->
                 LET existing_feedback == Get(st, "human_feedback", "")
                     feedback == IF ans.text = EOF THEN "approve" ELSE Strip(ans.text)
                 IN  IF existing_feedback # ""
                     THEN quiet(("human_feedback" :> existing_feedback)
                                    @@ ("status" :> "review"))
                     ELSE [asked |-> TRUE,
                           out |-> ("human_feedback" :>
                                        (IF feedback = "" THEN "approve" ELSE feedback))
                                       @@ ("status" :> "review")]
          [] n = "refine" -> quiet("status" :> "refining")
          [] n = "tone_review" -> menu("tone_prefs", "tone_review", "")
          [] n = "tone_apply" -> quiet("status" :> "tone_applying")
          [] n = "brief" -> quiet("status" :> "final")
          [] n = "format" -> quiet("status" :> "formatting")

\* The edges of the console graph; "END" after format.
console_edge(n, st) ==
    CASE n = "input" -> "search_plan"
      [] n = "search_plan" -> "plan_draft"
      [] n = "plan_draft" -> "plan_review"
      [] n = "plan_review" ->
             LET fb == Lower(Strip(Get(st, "plan_feedback", "")))
             IN  IF fb # "" /\ fb # "approve" THEN "search_plan" ELSE "web_search"
      [] n = "web_search" -> "extract"
      [] n = "extract" -> "prioritize"
      [] n = "prioritize" -> "claims_extract"
      [] n = "claims_extract" -> "claims_review"
      [] n = "claims_review" -> "synthesize"
      [] n = "synthesize" -> "review"
      [] n = "review" ->
             LET feedback == Lower(Strip(Get(st, "human_feedback", "")))
             IN  IF feedback # "" /\ feedback # "approve" THEN "refine" ELSE "brief"
      [] n = "refine" -> "tone_review"
      [] n = "tone_review" ->
             IF Strip(Get(st, "tone_prefs", "")) # "" THEN "tone_apply" ELSE "brief"
      [] n = "tone_apply" -> "brief"
      [] n = "brief" -> "format"
      [] n = "format" -> "END"

\* main() of the console program: the arguments are parsed, the initial state
\* is built and app.invoke enters the graph.
ConsoleMain ==
    \E flag \in BOOLEAN, seed \in ConsoleSeeds :
        /\ env.console.pc = "idle"
        /\ env' = [env EXCEPT !.console =
                       [pc |-> "invoke", non_interactive |-> flag, seed |-> seed,
                        node |-> "input",
                        state |-> IF flag THEN ("human_feedback" :> "approve")
                                          ELSE EmptyDict,
                        asked |-> {}, steps |-> 0, replans |-> 0]]
        /\ UNCHANGED <<active_sessions, session_graphs, active_connections, tasks,
                       sockets, orphans, last>>

\* app.invoke runs the next node of the console graph and follows its edge,
\* or raises GraphRecursionError at the step limit.
ConsoleNode ==
    \E choice \in ConsoleChoices, text \in ConsoleTexts :
        LET c == env.console
            res == console_node(c.node, c.state, [choice |-> choice, text |-> text])
            st == res.out @@ c.state
            next == console_edge(c.node, st)
        IN  /\ c.pc = "invoke"
            /\ env' = [env EXCEPT !.console =
                           IF c.steps >= RecursionLimit
                           THEN [c EXCEPT !.pc = "GraphRecursionError"]
                           ELSE [c EXCEPT
                                    !.state = st,
                                    !.asked = IF res.asked THEN @ \cup {c.node} ELSE @,
                                    !.steps = @ + 1,
                                    !.replans = IF c.node = "plan_review"
                                                      /\ next = "search_plan"
                                                THEN @ + 1 ELSE @,
                                    !.node = IF next = "END" THEN c.node ELSE next,
                                    !.pc = IF next = "END" THEN "done" ELSE "invoke"]]
            /\ UNCHANGED <<active_sessions, session_graphs, active_connections, tasks,
                           sockets, orphans, last>>

NextConsole == ConsoleMain \/ ConsoleNode

SpecConsole == Init /\ [][NextConsole]_vars

\* ---------------------------------------------------------------------------
\* Properties

\* The tasks of session s that are inside a graph run: a node is in flight or
\* one of the run's events is being broadcast.
ActiveRuns(s) == {r \in TaskIds : tasks[s][r].pc \in {"exec", "send"}}

\* The node events (node_started, node_complete) among published messages.
NodeEvents(pub) ==
    {i \in 1..Len(pub) : pub[i].type \in {"node_started", "node_complete"}}

\* The session is parked: its record says the run waits for the human.
Parked(s) == s \in DOMAIN active_sessions /\ active_sessions[s].waiting_for_human

\* C1: for each session at most one graph run is active at any time, so no two
\* node invocations of one session overlap, whenever submit_feedback is called.
C1_SingleActiveRun == \A s \in Sessions : Cardinality(ActiveRuns(s)) <= 1

\* C2: from the moment a session is parked until submit_feedback is accepted
\* for it, no step of the session executes a node or publishes a node_started
\* or node_complete event.
C2_ParkedStaysIdle ==
    [][\A s \in Sessions :
          (Parked(s) /\ env.unanswered[s] /\ last'.sid = s)
              => \/ last'.op = "submit_feedback"
                 \/ last'.ran = <<>> /\ NodeEvents(last'.pub) = {}]_vars

\* C3: whenever a session's waiting_for_human is true, a state snapshot is
\* stored whose _waiting_for_human is true, and the session's checkpoint_type
\* is one of the four checkpoint types and equals both the snapshot's
\* _checkpoint_type and the snapshot's status.
C3_ParkedConsistent ==
    \A s \in DOMAIN active_sessions :
        active_sessions[s].waiting_for_human =>
            LET state == active_sessions[s].state
            IN  /\ DOMAIN state # {}
                /\ Get(state, W, FALSE) = TRUE
                /\ active_sessions[s].checkpoint_type \in CheckpointTypes
                /\ active_sessions[s].checkpoint_type = Get(state, CT, None)
                /\ active_sessions[s].checkpoint_type = Get(state, "status", "")

\* C4: in the web graph, once the gate after plan_review has routed to a
\* replan, the next pass through plan_review of the same run (no new
\* submit_feedback can reach it) does not route to a replan again: one decision
\* causes at most one replan pass.
C4_OneReplanPerDecision ==
    \A s \in Sessions : \A r \in TaskIds : tasks[s][r].replans <= 1

\* The error event of a run that hit the step limit.
LimitEvents(pub) ==
    {i \in 1..Len(pub) : pub[i].type = "error" /\ pub[i].message = "GraphRecursionError"}

\* C5: no run makes more than 50 node transitions: a node is only ever in
\* flight below the limit, and a run that reaches the limit stops there with an
\* error event, leaving the session failed with the step-limit reason, which is
\* not the reason of a failed stage.
C5_StepLimit ==
    \A s \in Sessions :
        /\ \A r \in TaskIds :
               /\ tasks[s][r].steps <= RecursionLimit
               /\ tasks[s][r].pc = "exec" => tasks[s][r].steps < RecursionLimit
        /\ (last.sid = s /\ LimitEvents(last.pub) # {}) =>
               /\ active_sessions[s].status = "failed"
               /\ active_sessions[s].error = "GraphRecursionError"
               /\ active_sessions[s].error # "stage error"
               /\ Quiet(s)

\* A run that always replanned was stopped at the step limit.
C5_Witness ==
    \E s \in DOMAIN active_sessions :
        /\ last.sid = s
        /\ LimitEvents(last.pub) # {}
        /\ Len(last.ran) = 1 /\ last.ran[1] \in {"search_plan", "plan_draft", "plan_review"}
        /\ active_sessions[s].status = "failed"
        /\ Get(active_sessions[s].state, "plan_feedback", "") = "revise"

\* The record of a session and the tasks and checkpoint that belong to it are
\* left as they were by the step.
SessionUntouched ==
    /\ active_sessions' = active_sessions
    /\ session_graphs' = session_graphs
    /\ tasks' = tasks

\* The step is a call of submit_feedback for session s.
Submitted(s) == last'.op = "submit_feedback" /\ last'.sid = s

\* The step schedules a continue_session task for session s.
ResumeScheduled(s) ==
    \E r \in TaskIds :
        /\ tasks[s][r].kind = "none"
        /\ tasks'[s][r].kind = "continue" /\ tasks'[s][r].pc = "sched"

\* C6: a submit_feedback whose checkpoint_type is not one of the four types is
\* answered with a client error, schedules no resume and leaves the session
\* record and its state snapshot exactly as they were.
C6_InvalidTypeRejected ==
    [][\A s \in Sessions :
          (Submitted(s) /\ last'.ctype \notin CheckpointTypes)
              => /\ last'.resp \in {"404", "400 Session state not available",
                                    "400 Unknown checkpoint"}
                 /\ SessionUntouched]_vars

\* An unknown checkpoint type was refused for a parked session.
C6_Witness ==
    /\ last.op = "submit_feedback"
    /\ last.ctype = "bogus"
    /\ last.resp = "400 Unknown checkpoint"
    /\ Parked(last.sid)
    /\ Quiet(last.sid)

\* C7 as stated: a submit_feedback for a known session with one of the four
\* checkpoint types is always acknowledged and schedules a resume, whatever
\* state the session is in.
C7_AlwaysAccepted ==
    [][\A s \in Sessions :
          (Submitted(s) /\ s \in DOMAIN active_sessions
                        /\ last'.ctype \in CheckpointTypes)
              => last'.resp = "feedback_received" /\ ResumeScheduled(s)]_vars

\* C7 amended: such a submit_feedback is acknowledged and schedules a resume
\* whenever the session has a state snapshot stored (running, parked, completed
\* or failed); while the session has none yet (initializing) it is refused with
\* "Session state not available" and changes nothing.
C7_AcceptedOnceStateStored ==
    [][\A s \in Sessions :
          (Submitted(s) /\ s \in DOMAIN active_sessions
                        /\ last'.ctype \in CheckpointTypes)
              => IF DOMAIN active_sessions[s].state = {}
                 THEN last'.resp = "400 Session state not available" /\ SessionUntouched
                 ELSE last'.resp = "feedback_received" /\ ResumeScheduled(s)]_vars

\* Feedback was acknowledged for a session whose run had failed.
C7_Witness ==
    /\ last.op = "submit_feedback"
    /\ last.resp = "feedback_received"
    /\ active_sessions[last.sid].status = "failed"
    /\ \E r \in TaskIds : tasks[last.sid][r].kind = "continue" /\ tasks[last.sid][r].pc = "sched"

\* C8: when the resume scheduled by an acknowledged submit_feedback(id, T, d)
\* for a parked session starts, the state it works on has the field of T equal
\* to d, and every other field (the two suspension flags, which the resume
\* clears, set aside) has the value it had before the submission: the decision
\* is not lost or overwritten before the review node reads it.
C8_RoundTrip ==
    (last.resumed.done /\ last.resumed.fb.parked) =>
        LET fb == last.resumed.fb
            field == FeedbackField(fb.ctype)
            vals == last.resumed.vals
        IN  /\ Get(vals, field, "") = fb.decision
            /\ \A k \in DOMAIN fb.before \ {field, W, CT} :
                   k \in DOMAIN vals /\ vals[k] = fb.before[k]

\* Websocket c has been subscribed to session s since before its run published
\* anything, and is still open.
WholeRun(c, s) ==
    /\ sockets[c].st = "open"
    /\ sockets[c].sid = s
    /\ sockets[c].early

\* C9: two observers subscribed to a session for its whole run have received
\* the same node_complete events in the same order once the run has returned,
\* whatever other subscribers connected, disconnected or broke meanwhile.
C9_SameHistory ==
    \A s \in DOMAIN active_sessions :
        \A c1 \in Observed, c2 \in Observed :
            (WholeRun(c1, s) /\ WholeRun(c2, s) /\ Quiet(s))
                => sockets[c1].rcv = sockets[c2].rcv

\* C10: a broadcast never raises and never makes the session failed because
\* of a broken subscriber; when it returns the subscribers whose send failed
\* are out of the session's list and every subscriber that was in the list when
\* it began and is still live has received the event.
C10_BroadcastTolerant ==
    /\ ~last.bcast.raised
    /\ \A s \in DOMAIN active_sessions : active_sessions[s].status # "failed"
    /\ last.bcast.done =>
           /\ \A c \in last.bcast.dead :
                  last.sid \in DOMAIN active_connections
                      => ~InList(active_connections[last.sid], c)
           /\ \A c \in last.bcast.start :
                  sockets[c].st = "open" => c \in last.bcast.got

\* The nodes of the node_complete events among published messages, in order.
CompletedNodes(pub) ==
    LET cs == SelectSeq(pub, LAMBDA m : m.type = "node_complete")
    IN  [i \in 1..Len(cs) |-> cs[i].node]

\* C11: the events of a session are totally ordered: no node_complete of
\* another node is published between the node_started of a node and its
\* node_complete, and the node_complete events come in the order in which the
\* nodes executed, none dropped or merged, in the first run and in every resume.
C11_EventsOrdered ==
    /\ ~last.crossed
    /\ CompletedNodes(last.pub) = last.ran

\* The error events among published messages that carry the text err.
ErrorEvents(pub, err) ==
    {i \in 1..Len(pub) : pub[i].type = "error" /\ pub[i].message = err}

\* C12: when the stage function of a node raises, the session becomes failed,
\* the error text is stored on its record, an error event with that text is
\* published, and the state snapshot and the checkpoint are exactly what they
\* were before the node ran: nothing of the node's update is applied.
C12_StageFailure ==
    [][\A s \in Sessions :
          (last'.sid = s /\ last'.failed # "" /\ s \in DOMAIN active_sessions)
              => /\ s \in DOMAIN active_sessions'
                 /\ active_sessions'[s].status = "failed"
                 /\ active_sessions'[s].error = "stage error"
                 /\ ErrorEvents(last'.pub, "stage error") # {}
                 /\ active_sessions'[s].state = active_sessions[s].state
                 /\ session_graphs' = session_graphs]_vars

\* The web_search node of a resumed run raised and the session is failed.
C12_Witness ==
    /\ last.failed = "web_search"
    /\ last.sid \in DOMAIN active_sessions
    /\ active_sessions[last.sid].status = "failed"
    /\ active_sessions[last.sid].error = "stage error"
    /\ Get(active_sessions[last.sid].state, "status", "") = "plan_review"

\* C13: once a session is failed no node of it executes any more and no node
\* event of it is published, whatever is called afterwards: submit_feedback
\* does not restart it and nothing retries it.
C13_FailedStaysStopped ==
    [][\A s \in Sessions :
          (s \in DOMAIN active_sessions /\ active_sessions[s].status = "failed"
                                        /\ last'.sid = s)
              => last'.ran = <<>> /\ NodeEvents(last'.pub) = {}]_vars

\* The status changes a session may make.
StatusMoves ==
    {<<"initializing", "running">>, <<"running", "completed">>,
     <<"running", "failed">>, <<"initializing", "failed">>}

\* C14: the status of a session only moves initializing -> running ->
\* completed or failed, or initializing -> failed; once it is completed or
\* failed no step changes it again.
C14_StatusMonotone ==
    [][\A s \in DOMAIN active_sessions \cap DOMAIN active_sessions' :
          \/ active_sessions'[s].status = active_sessions[s].status
          \/ <<active_sessions[s].status, active_sessions'[s].status>> \in StatusMoves]_vars

\* C15: when delete_session(id) has succeeded, the record of id with its state,
\* the graph of id and every subscriber registration of id are gone:
\* active_connections has no entry for id.
C15_DeleteReleasesAll ==
    (last.op = "delete_session" /\ last.resp = "deleted") =>
        /\ last.sid \notin DOMAIN active_sessions
        /\ last.sid \notin DOMAIN session_graphs
        /\ last.sid \notin DOMAIN active_connections

\* Session s was created and has been deleted.
Deleted(s) == s \in env.created /\ s \notin DOMAIN active_sessions

\* C16: after delete_session(id) has succeeded the run of the session is
\* stopped: no step of the session starts a node or publishes an event (a node
\* in flight may still return).
C16_DeleteStopsRun ==
    [][\A s \in Sessions :
          (Deleted(s) /\ last'.sid = s) => last'.pub = <<>>]_vars

\* Session t and everything that belongs to it are the same after the step.
SessionFrame(t) ==
    /\ t \in DOMAIN active_sessions <=> t \in DOMAIN active_sessions'
    /\ t \in DOMAIN active_sessions => active_sessions'[t] = active_sessions[t]
    /\ t \in DOMAIN session_graphs <=> t \in DOMAIN session_graphs'
    /\ t \in DOMAIN session_graphs => session_graphs'[t] = session_graphs[t]
    /\ t \in DOMAIN active_connections <=> t \in DOMAIN active_connections'
    /\ t \in DOMAIN active_connections => active_connections'[t] = active_connections[t]
    /\ t \in DOMAIN orphans <=> t \in DOMAIN orphans'
    /\ t \in DOMAIN orphans => orphans'[t] = orphans[t]
    /\ tasks'[t] = tasks[t]
    /\ \A c \in WebSockets : sockets[c].sid = t => sockets'[c] = sockets[c]

FieldRead(n, st) ==
    IF n = "review" THEN Get(st, FeedbackField(n), "")
    ELSE Strip(Get(st, FeedbackField(n), ""))

\* C18: each of the four review nodes suspends exactly when its feedback field
\* is empty or "pending": it then leaves _waiting_for_human true and
\* _checkpoint_type its own name; on any other value it leaves the flag
\* false, the checkpoint type None and the feedback as it was.
C18_ReviewSuspends ==
    [][\A s \in FirstSession, r \in TaskIds :
          LET t == tasks[s][r]
              read == FieldRead(t.node, t.vals)
              left == session_graphs'[s].vals
          IN  (/\ t.pc = "exec"
               /\ t.node \in ReviewNodes
               /\ last'.ran = <<t.node>>)
              => IF read \in {"", "pending"}
                 THEN left[W] = TRUE /\ left[CT] = t.node
                 ELSE /\ left[W] = FALSE
                      /\ left[CT] = None
                      /\ left[FeedbackField(t.node)] = read]_vars

\* The session has been answered with nothing but approvals of the checkpoint
\* it was parked at, and no run of it has failed.
Approving(s, k) ==
    /\ s \in DOMAIN active_sessions
    /\ env.approved[s]
    /\ env.accepted[s] = k
    /\ active_sessions[s].error = ""

\* The nodes the run after the k-th approval executes, in order: a resumed run
\* first completes the review node it was parked at.
Stretch(k) ==
    CASE k = 0 -> <<"input", "search_plan", "plan_draft", "plan_review">>
      [] k = 1 -> <<"plan_review", "web_search", "extract", "prioritize",
                    "claims_extract", "claims_review">>
      [] k = 2 -> <<"claims_review", "synthesize", "review">>
      [] k = 3 -> <<"review", "generate_brief", "format">>

\* The run of s after the k-th approval is at a node of its stretch, having
\* executed the nodes before it and no other.
OnStretch(s, k) ==
    \A r \in TaskIds :
        LET t == tasks[s][r]
        IN  t.pc = "exec" => /\ t.steps < Len(Stretch(k))
                             /\ t.node = Stretch(k)[t.steps + 1]

ParkedAt(s, n) ==
    /\ active_sessions[s].waiting_for_human
    /\ active_sessions[s].checkpoint_type = n
    /\ active_sessions[s].status = "running"

\* C19: a new session executes input, search_plan, plan_draft and parks at
\* plan_review; once that is approved it executes web_search, extract,
\* prioritize, claims_extract and parks at claims_review; once that is approved
\* it executes synthesize and parks at review. Between two parks no other node
\* executes (the resumed run completes the review node it was parked at first).
C19_ApprovedStretches ==
    \A s \in FirstSession, k \in 0..2 :
        Approving(s, k) =>
            /\ OnStretch(s, k)
            /\ Quiet(s) => ParkedAt(s, Stretch(k)[Len(Stretch(k))])

\* Plan and claims were approved, synthesize has run and the session is parked
\* at review.
C19_Witness ==
    /\ Approving("s1", 2)
    /\ Quiet("s1")
    /\ ParkedAt("s1", "review")
    /\ Get(active_sessions["s1"].state, "outline", "") = "outline"
    /\ last.ran = <<"review">>

\* C20 as the specification states it: once the outline is approved at review,
\* refine is skipped and the session parks at tone_review before generate_brief
\* runs.
C20_ParksAtToneReview ==
    \A s \in FirstSession :
        Approving(s, 3) =>
            /\ \A r \in TaskIds :
                   tasks[s][r].pc = "exec" => tasks[s][r].node \in {"review", "tone_review"}
            /\ Quiet(s) => ParkedAt(s, "tone_review")

\* C20: once the outline is approved at review, refine and tone_review are
\* both skipped: the resumed run completes review, executes generate_brief and
\* format, and the session ends completed without parking again.
C20_ApprovedOutlineCompletes ==
    \A s \in FirstSession :
        Approving(s, 3) =>
            /\ OnStretch(s, 3)
            /\ Quiet(s) => /\ active_sessions[s].status = "completed"
                           /\ ~active_sessions[s].waiting_for_human
                           /\ active_sessions[s].checkpoint_type = None
                           /\ "tone_prefs" \notin DOMAIN active_sessions[s].state
                           /\ Get(active_sessions[s].state, "formatted_brief", "") # ""

\* The outline was approved and the run that followed has just completed.
C20_Witness ==
    /\ Approving("s1", 3)
    /\ Quiet("s1")
    /\ active_sessions["s1"].status = "completed"
    /\ last.ran = <<"format">>
    /\ last.sid = "s1"

\* The session is completed: generate_brief and format have left their output
\* in the state and session_complete was published in the step just taken.
Completed(s) ==
    /\ active_sessions[s].status = "completed"
    /\ Get(active_sessions[s].state, "brief", "") # ""
    /\ Get(active_sessions[s].state, "formatted_brief", "") # ""

\* Nothing is left to happen in session s: no run of it is alive and it is
\* not parked at a checkpoint the human has yet to answer.
AtRest(s) ==
    /\ s \in DOMAIN active_sessions
    /\ Quiet(s)
    /\ ~(active_sessions[s].waiting_for_human /\ env.unanswered[s])

\* C21: a session whose stage functions all return and whose checkpoints are
\* all answered with approve ends completed, with the brief and the formatted
\* brief in its state: whenever nothing is left to happen in it, it is
\* completed, and session_complete is published when it becomes so.
C21_ApprovedCompletes ==
    \A s \in FirstSession :
        /\ AtRest(s) => Completed(s)
        /\ (s \in DOMAIN active_sessions /\ active_sessions[s].status = "completed"
                /\ last.op = "task" /\ last.sid = s /\ last.pub # <<>>) =>
               \E i \in 1..Len(last.pub) : last.pub[i].type = "session_complete"

\* The status each node returns in its update.
StatusTag(n) ==
    CASE n = "input" -> "input"
      [] n = "search_plan" -> "search_planning"
      [] n = "plan_draft" -> "plan_drafting"
      [] n = "plan_review" -> "plan_review"
      [] n = "web_search" -> "searching"
      [] n = "extract" -> "extracting"
      [] n = "prioritize" -> "prioritizing"
      [] n = "claims_extract" -> "claims_extracting"
      [] n = "claims_review" -> "claims_review"
      [] n = "synthesize" -> "synthesizing"
      [] n = "review" -> "review"
      [] n = "refine" -> "refining"
      [] n = "tone_review" -> "tone_review"
      [] n = "tone_apply" -> "tone_applying"
      [] n = "generate_brief" -> "final"
      [] n = "format" -> "completed"

\* The nodes an edge of the graph leads to from node n: the target of its
\* static edge, or the targets its conditional mapping names.
EdgeTargets(n) ==
    CASE n = "plan_review" -> {"search_plan", "web_search"}
      [] n = "review" -> {"refine", "generate_brief"}
      [] n = "tone_review" -> {"tone_apply", "generate_brief"}
      [] n = "format" -> {END}
      [] OTHER -> {Successor(n, EmptyDict)}

\* Node n completes after the state held status p: n is the entry point when
\* there was no status; else, with m the node p is the tag of, n is the review
\* node m itself completed by a resumed run, or the successor the edges of m
\* give on the state the run had when m completed, or (first node of a resumed
\* run) a target of an edge of m.
WalkStep(p, t, n) ==
    IF p = None
    THEN n = "input"
    ELSE \E m \in Nodes :
             /\ StatusTag(m) = p
             /\ \/ n = m /\ m \in ReviewNodes /\ t.steps = 0
                \/ t.steps > 0 /\ n = Successor(m, t.vals)
                \/ t.steps = 0 /\ n \in EdgeTargets(m)

\* C22: the status values that successive node completions write into the
\* state of a session are a walk of the graph: each is the tag of the node that
\* completed, and that node follows the node of the previous status by an edge
\* of the graph (a resumed review node repeats its own status).
C22_StatusWalk ==
    [][\A s \in FirstSession, r \in TaskIds :
          LET t == tasks[s][r]
          IN  (t.pc = "exec" /\ last'.sid = s /\ last'.ran = <<t.node>>)
              => /\ Get(active_sessions'[s].state, "status", None) = StatusTag(t.node)
                 /\ WalkStep(Get(active_sessions[s].state, "status", None), t, t.node)]_vars

\* C23: a status query changes nothing but its own response, and while a
\* session is parked and its checkpoint unanswered every step that is not a
\* submission leaves the response of a status query as it was.
C23_ParkedStable ==
    [][\A s \in FirstSession :
          /\ last'.op = "get_session_status" =>
                 UNCHANGED <<active_sessions, session_graphs, active_connections,
                             tasks, sockets, orphans, env>>
          /\ (Parked(s) /\ env.unanswered[s] /\ last'.op # "submit_feedback") =>
                 SessionStatusResponse(active_sessions'[s])
                     = SessionStatusResponse(active_sessions[s])]_vars

\* C24: when submit_feedback acknowledges, the suspension flag of the session
\* is already cleared, and a status query of a session whose checkpoint was
\* answered and that has not parked again does not report waiting_for_human.
C24_ClearedOnAcknowledgement ==
    \A s \in FirstSession :
        /\ (last.op = "submit_feedback" /\ last.sid = s
                /\ last.resp = "feedback_received")
               => ~active_sessions[s].waiting_for_human
        /\ (last.op = "get_session_status" /\ last.sid = s /\ ~env.unanswered[s])
               => ~last.view.waiting_for_human

\* C25: a websocket that subscribes to an existing session is first sent a
\* connected event with the status and the waiting flag the session has at
\* that moment and no earlier event; and every broadcast that began while it
\* was subscribed has reached it when the broadcast returns, if it is still
\* connected.
C25_SubscriberStream ==
    /\ (last.op = "connect" /\ last.sid \in DOMAIN active_sessions) =>
           /\ last.view.msg.type = "connected"
           /\ last.view.msg.status = active_sessions[last.sid].status
           /\ last.view.msg.waiting = active_sessions[last.sid].waiting_for_human
           /\ last.view.to \in Observed => sockets[last.view.to].rcv = <<>>
    /\ last.bcast.done =>
           \A c \in last.bcast.start : sockets[c].st = "open" => c \in last.bcast.got

\* The types of the messages the step just taken published on the channel of
\* a session or sent to one websocket.
SentTypes ==
    {last.pub[i].type : i \in 1..Len(last.pub)}
        \cup (IF last.op \in {"connect", "receive_text"} /\ last.view # EmptyDict
              THEN {last.view.msg.type} ELSE {})

\* C26 as the specification states it: every message sent to a subscriber has
\* one of the five event types.
C26_FiveEventTypes ==
    SentTypes \subseteq
        {"node_started", "node_complete", "session_complete", "error", "connected"}

\* C26: every message sent to a subscriber has one of seven types: the five
\* event types, status_update (sent once when the first run of a session
\* starts) and pong (the echo of a text the client sent).
C26_SevenMessageTypes ==
    /\ SentTypes \subseteq
           {"status_update", "node_started", "node_complete", "session_complete",
            "error", "connected", "pong"}
    /\ \A i \in 1..Len(last.pub) :
           last.pub[i].type = "status_update" =>
               i = 1 /\ last.op = "task" /\ last.ran = <<>>

\* The first run of a session has just sent status_update to a subscriber.
C26_Witness ==
    /\ last.op = "task"
    /\ last.sid = "s1"
    /\ Len(last.pub) > 0
    /\ last.pub[1].type = "status_update"
    /\ \E r \in TaskIds :
           /\ tasks["s1"][r].pc = "send"
           /\ tasks["s1"][r].bc.msg.type = "status_update"
           /\ sockets[tasks["s1"][r].bc.cur].st = "open"

\* The text reads as the expected object: a list of claim records under
\* "claims" and a map under "citation_map".
ExpectedObject(raw) ==
    /\ json_loads(raw).ok
    /\ json_loads(raw).top = "dict"
    /\ json_loads(raw).claims \in {"records", "empty"}
    /\ json_loads(raw).citation_map \in {"map", "empty"}

\* C27: whatever the shape of the text, claims_extract does not fail the
\* session and leaves claims and citation_map in the state; for a text that
\* does not read as the expected object, claims is the single fallback claim
\* with the raw text and citation_map is empty.
C27_ClaimsFallback ==
    (last.op = "task" /\ "raw" \in DOMAIN last.view) =>
        LET session == active_sessions[last.sid]
        IN  /\ last.failed = ""
            /\ session.status # "failed"
            /\ "claims" \in DOMAIN session.state
            /\ "citation_map" \in DOMAIN session.state
            /\ ~ExpectedObject(last.view.raw) =>
                   /\ session.state["claims"] = FallbackClaims(last.view.raw)
                   /\ session.state["citation_map"] = EmptyDict

\* C28: with --non_interactive no node of the console graph waits for console
\* input, and every review decision in the state is the approval.
C28_NonInteractiveAutoApproves ==
    env.console.non_interactive =>
        /\ env.console.asked = {}
        /\ \A f \in {"plan_feedback", "claims_feedback", "human_feedback"} :
               f \in DOMAIN env.console.state => env.console.state[f] = "approve"

\* A node step of session s has just executed node n and returned.
JustRan(s, n) ==
    /\ last.op = "task"
    /\ last.sid = s
    /\ last.ran = <<n>>
    /\ last.failed = ""
    /\ s \in DOMAIN session_graphs

\* The feedback field f of the graph state of s, trimmed and lower-cased.
Normalised(s, f) == Lower(Strip(Get(session_graphs[s].vals, f, "")))

\* A step keeps an approval in field f of the graph state of s.
KeepsApproval(s, f) ==
    (s \in DOMAIN session_graphs /\ Normalised(s, f) = "approve") =>
        /\ s \in DOMAIN session_graphs'
        /\ Lower(Strip(Get(session_graphs'[s].vals, f, ""))) = "approve"

\* C29 as stated: after plan_review has returned without suspending, the run
\* goes back to search_plan exactly when plan_feedback is non-empty and is
\* neither 'approve' nor 'pending', and on to web_search otherwise.
C29_ReplanGateAsTyped ==
    \A s \in FirstSession :
        (JustRan(s, "plan_review") /\ ~Get(session_graphs[s].vals, W, FALSE)) =>
            LET fb == Get(session_graphs[s].vals, "plan_feedback", "")
            IN  session_graphs[s].next =
                    IF fb # "" /\ fb \notin {"approve", "pending"}
                    THEN "search_plan" ELSE "web_search"

\* C29: after plan_review has returned without suspending, the run goes back
\* to search_plan exactly when plan_feedback, trimmed and lower-cased, is
\* non-empty and is neither 'approve' nor 'pending', and on to web_search
\* otherwise; and no node step changes an approving plan_feedback, so that
\* every re-entry of plan_review after the approval decides continue.
C29_ReplanGate ==
    /\ [](\A s \in FirstSession :
              (JustRan(s, "plan_review") /\ ~Get(session_graphs[s].vals, W, FALSE)) =>
                  session_graphs[s].next =
                      IF Normalised(s, "plan_feedback") \notin {"", "approve", "pending"}
                      THEN "search_plan" ELSE "web_search")
    /\ [][\A s \in FirstSession :
              (last'.op = "task" /\ last'.ran # <<>>) => KeepsApproval(s, "plan_feedback")]_vars

\* plan_review is re-entered with an approval that is not typed as the
\* sentinel, and the run goes on to web_search.
C29_Witness ==
    /\ JustRan("s1", "plan_review")
    /\ session_graphs["s1"].vals["plan_feedback"] = "Approve"
    /\ session_graphs["s1"].next = "web_search"

\* C30 as stated: after review has returned without suspending, the run goes
\* to refine exactly when human_feedback is non-empty and is neither
\* 'approve' nor 'pending', and to generate_brief otherwise.
C30_RevisionGateAsTyped ==
    \A s \in FirstSession :
        (JustRan(s, "review") /\ ~Get(session_graphs[s].vals, W, FALSE)) =>
            LET feedback == Get(session_graphs[s].vals, "human_feedback", "")
            IN  session_graphs[s].next =
                    IF feedback # "" /\ feedback \notin {"approve", "pending"}
                    THEN "refine" ELSE "generate_brief"

\* C30: after review has returned without suspending, the run goes to refine
\* exactly when human_feedback, trimmed and lower-cased, is non-empty and is
\* neither 'approve' nor 'pending', and to generate_brief otherwise; refine
\* executes only with such a human_feedback, posted by the client for the
\* outline review.
C30_RevisionGate ==
    \A s \in FirstSession :
        /\ (JustRan(s, "review") /\ ~Get(session_graphs[s].vals, W, FALSE)) =>
               session_graphs[s].next =
                   IF Normalised(s, "human_feedback") \notin {"", "approve", "pending"}
                   THEN "refine" ELSE "generate_brief"
        /\ JustRan(s, "refine") =>
               /\ Normalised(s, "human_feedback") \notin {"", "approve", "pending"}
               /\ env.accepted[s] >= 3

\* review is re-entered with an approval that is not typed as the sentinel
\* and the run goes to generate_brief.
C30_Witness ==
    /\ JustRan("s1", "review")
    /\ session_graphs["s1"].vals["human_feedback"] = "Approve "
    /\ session_graphs["s1"].next = "generate_brief"

C32_UpdateFrame ==
    [][\A s \in FirstSession :
           (s \in DOMAIN active_sessions /\ s \in DOMAIN active_sessions') =>
               /\ DOMAIN active_sessions[s].state \subseteq DOMAIN active_sessions'[s].state
               /\ (last'.op = "task" /\ last'.sid = s /\ last'.ran # <<>>
                       /\ last'.failed = "") =>
                      \E r \in TaskIds :
                          /\ tasks[s][r].pc = "exec"
                          /\ last'.ran = <<tasks[s][r].node>>
                          /\ active_sessions'[s].state =
                                 Update(active_sessions[s].state,
                                        NodeOutput(tasks[s][r].node, tasks[s][r].vals))]_vars

\* The second pass of search_plan has overwritten search_queries and left
\* the plan of the first pass in the state.
C32_Witness ==
    /\ last.op = "task"
    /\ last.ran = <<"search_plan">>
    /\ "s1" \in DOMAIN active_sessions
    /\ Get(active_sessions["s1"].state, "search_queries", "") = "guided"
    /\ Get(active_sessions["s1"].state, "plan_summary", "") # ""
    /\ Get(active_sessions["s1"].state, "status", "") = "search_planning"

\* C33: search_queries holds at most 5 entries whatever text was generated,
\* the claims_review payload shows the first 6 claims at most, in their
\* stored order, and the outline preview of the tone_review payload is at
\* most 500 characters long.
C33_Sizes ==
    /\ last.op = "search_plan" =>
           /\ Len(last.view.search_queries) <= 5
           /\ \A i \in 1..Len(last.view.search_queries) :
                  last.view.search_queries[i] = "q"
    /\ (last.op = "get_checkpoint_data" /\ last.ctype = "claims_review") =>
           LET shown == last.view.data.claims
           IN  /\ Len(shown) <= 6
               /\ Len(shown) <= Len(last.view.claims)
               /\ \A i \in 1..Len(shown) : shown[i] = last.view.claims[i]
    /\ (last.op = "get_checkpoint_data" /\ last.ctype = "tone_review") =>
           /\ last.view.data.outline_preview <= 500
           /\ last.view.data.outline_preview <= last.view.outline_len

\* Eight claims are stored and the payload shows the first six.
C33_Witness ==
    /\ last.op = "get_checkpoint_data"
    /\ last.ctype = "claims_review"
    /\ Len(last.view.claims) = 8
    /\ last.view.data.claims = <<1, 2, 3, 4, 5, 6>>

\* The most steps a run of the console graph takes: each of its 16 nodes once.
ConsoleLongest == 16

\* C34: in the console graph a plan decision leads to one re-planning pass at
\* most, and every run ends at format well within the step limit, whatever
\* the human answers: no run takes more than 16 steps or raises
\* GraphRecursionError, and a run that has ended has executed format.
C34_ConsoleTerminates ==
    LET c == env.console
    IN  /\ c.pc \in {"idle", "invoke", "done"}
        /\ c.replans <= 1
        /\ c.steps <= ConsoleLongest
        /\ c.pc = "invoke" => c.steps < ConsoleLongest
        /\ c.pc = "done" => /\ c.node = "format"
                            /\ c.state["status"] = "formatting"
                            /\ c.state["plan_feedback"] = "approve"

\* The longest run has ended: the outline was revised and a tone applied.
C34_Witness ==
    /\ env.console.pc = "done"
    /\ env.console.steps = ConsoleLongest
    /\ env.console.asked = {"claims_review", "review", "tone_review"}
    /\ env.console.state["human_feedback"] = "shorter"
    /\ env.console.state["tone_prefs"] = "shorter"

\* C35: in the console graph plan_review, reached without plan feedback in
\* the initial state, asks the human for a decision.
C35_PlanReviewAsks ==
    LET c == env.console
    IN  (c.pc # "idle" /\ c.state # EmptyDict /\ "status" \in DOMAIN c.state
            /\ c.state["status"] = "plan_review") =>
            "plan_review" \in c.asked

\* The feedback field whose decision lets node n execute.
GateField(n) ==
    CASE n = "web_search" -> "plan_feedback"
      [] n = "synthesize" -> "claims_feedback"
      [] n \in {"refine", "generate_brief"} -> "human_feedback"

\* C36: web_search does not execute while plan_feedback is empty or
\* 'pending' in the state of its session, synthesize not while
\* claims_feedback is, and refine and generate_brief not while human_feedback
\* is, whenever feedback is submitted.
C36_HumanGating ==
    [][\A s \in FirstSession :
           \A n \in {"web_search", "synthesize", "refine", "generate_brief"} :
               (last'.op = "task" /\ last'.sid = s /\ last'.ran = <<n>>
                    /\ s \in DOMAIN active_sessions) =>
                   Get(active_sessions[s].state, GateField(n), "")
                       \notin {"", "pending"}]_vars

\* The feedback fb was accepted by a parked session for a checkpoint type
\* other than the one it was parked at.
Stray(fb) ==
    /\ fb.parked
    /\ fb.ctype \in CheckpointTypes
    /\ Get(fb.before, CT, None) \in CheckpointTypes
    /\ fb.ctype # Get(fb.before, CT, None)

\* C37: a parked session with no run alive accepts a decision for a valid
\* checkpoint type other than the one it is parked at; the submission changes
\* only the field of the named type; the resumed run starts at the node the
\* session was parked at, with that node's own field still undecided; and its
\* next step either raises or executes that node and parks the session at
\* the same checkpoint again, which ends the run.
C37_StrayDecision ==
    /\ [](\A s \in FirstSession : \A r \in TaskIds :
              (last.op = "submit_feedback" /\ last.sid = s
                   /\ last.resp = "feedback_received" /\ tasks[s][r].pc = "sched"
                   /\ tasks[s][r].kind = "continue") =>
                  active_sessions[s].state =
                      Update(tasks[s][r].fb.before,
                             FeedbackField(tasks[s][r].fb.ctype) :> tasks[s][r].fb.decision))
    /\ [](\A s \in FirstSession :
              (last.op = "task" /\ last.sid = s /\ last.resumed.done
                   /\ Stray(last.resumed.fb)) =>
                  LET parked_at == last.resumed.fb.before[CT]
                  IN  /\ session_graphs[s].next = parked_at
                      /\ Get(last.resumed.vals, FeedbackField(parked_at), "")
                             \in {"", "pending"}
                      /\ Get(last.resumed.vals, FeedbackField(last.resumed.fb.ctype), "")
                             = last.resumed.fb.decision)
    /\ [][\A s \in FirstSession :
              (last.op = "task" /\ last.sid = s /\ last.resumed.done
                   /\ Stray(last.resumed.fb)) =>
                  LET parked_at == last.resumed.fb.before[CT]
                  IN  /\ last'.op = "task"
                      /\ \/ last'.failed # ""
                         \/ /\ last'.ran = <<parked_at>>
                            /\ Quiet(s)'
                            /\ active_sessions'[s].waiting_for_human
                            /\ active_sessions'[s].checkpoint_type = parked_at]_vars

\* A session parked at claims_review got a decision for the outline review
\* and is parked at claims_review again, the decision stored.
C37_Witness ==
    /\ last.op = "task"
    /\ last.ran = <<"claims_review">>
    /\ Quiet("s1")
    /\ ParkedAt("s1", "claims_review")
    /\ Get(active_sessions["s1"].state, "human_feedback", "") = "revise"
    /\ Get(active_sessions["s1"].state, "claims_feedback", "") = "pending"

\* C38: whenever a session's status is completed or failed, the session does
\* not wait for a human and names no checkpoint.
C38_FinishedNotWaiting ==
    \A s \in DOMAIN active_sessions :
        active_sessions[s].status \in {"completed", "failed"} =>
            /\ ~active_sessions[s].waiting_for_human
            /\ active_sessions[s].checkpoint_type = None

\* The positions of the session_complete events among published messages.
CompleteEvents(pub) ==
    {i \in 1..Len(pub) : pub[i].type = "session_complete"}

\* C39: session_complete is published at most once per session and no
\* node_started or node_complete of the session follows it: a step publishes
\* it at most once and as its last event, and a step of a session that is
\* already completed, whose session_complete was published when it became
\* so, publishes neither another one nor a node event.
C39_CompleteOnce ==
    [][\A s \in FirstSession :
          (last'.sid = s /\ s \in DOMAIN active_sessions) =>
              /\ Cardinality(CompleteEvents(last'.pub)) <= 1
              /\ \A i \in CompleteEvents(last'.pub) :
                     \A j \in NodeEvents(last'.pub) : j < i
              /\ active_sessions[s].status = "completed" =>
                     /\ CompleteEvents(last'.pub) = {}
                     /\ NodeEvents(last'.pub) = {}]_vars

\* C40: once delete_session(id) has succeeded, id never reappears in
\* active_sessions or in session_graphs: a deleted session has no graph, and
\* no step (a resume scheduled before the deletion that starts now, a run in
\* flight that goes on) gives it a record or a graph again.
C40_DeletedStaysGone ==
    [][\A s \in Sessions :
          Deleted(s) =>
              /\ s \notin DOMAIN session_graphs
              /\ s \notin DOMAIN active_sessions'
              /\ s \notin DOMAIN session_graphs']_vars

\* A resume that was scheduled before its session was deleted has just
\* started and returned at once; no task of the session is left.
C40_Witness ==
    /\ Deleted("s1")
    /\ last.op = "task" /\ last.sid = "s1"
    /\ last.ran = <<>> /\ last.pub = <<>> /\ last.failed = ""
    /\ env.accepted["s1"] > 0
    /\ \A r \in TaskIds : tasks["s1"][r].kind = "none"

====
